---- MODULE Spec2Model ----
(***************************************************************************)
(* Model of the dashboard bot (src/dashboard.py): the data clients, the    *)
(* report delivery with its chunking, and the command handlers.            *)
(*                                                                         *)
(* A text (a Python str) is a sequence of units.  A unit is a record       *)
(* [c, w]: c is its content and w the number of characters it stands for.  *)
(* The newline and the letter are single characters; a block stands for a  *)
(* run of w non-whitespace characters, so that texts near the 4000         *)
(* character limit of the delivery stay short sequences.                   *)
(***************************************************************************)
EXTENDS Integers, Sequences, FiniteSets, TLC

\* ------------------------------------------------------------------ bounds
\* Longest report text, in units, that the delivery is started with.
MaxUnits == 8
\* Number of characters a block unit stands for.
BlockLen == 3995
\* How many upstream answers may be faulty in one run of the derivatives
\* client checked alone: it makes eight requests.
MaxFaultsFetch == 8

\* ------------------------------------------------------------------- texts
NL == [c |-> "\n", w |-> 1]
SP == [c |-> " ", w |-> 1]
Letter == [c |-> "a", w |-> 1]
Block == [c |-> "B", w |-> BlockLen]
Tok(s, n) == [c |-> s, w |-> n]

Alphabet == {NL, Letter, Block}

\* len(text): the widths of the units added up, half by half.
RECURSIVE TextLen(_)
TextLen(t) ==
    IF t = <<>> THEN 0
    ELSE IF Len(t) = 1 THEN t[1].w
    ELSE LET half == Len(t) \div 2 IN
         TextLen(SubSeq(t, 1, half)) + TextLen(SubSeq(t, half + 1, Len(t)))

IsSpace(u) == u.c \in {"\n", " "}

\* str.strip(): leading and trailing whitespace removed.
RECURSIVE LStrip(_)
LStrip(t) == IF t # <<>> /\ IsSpace(Head(t)) THEN LStrip(Tail(t)) ELSE t

RECURSIVE RStrip(_)
RStrip(t) ==
    IF t # <<>> /\ IsSpace(t[Len(t)]) THEN RStrip(SubSeq(t, 1, Len(t) - 1)) ELSE t

StripNone(t) == t
Strip(t) == RStrip(LStrip(t))

\* str.split('\n\n'): leftmost non-overlapping separators; the piece before
\* the first separator, then the pieces of what follows it.
RECURSIVE Split(_)
Split(t) ==
    LET separators == {i \in 1..(Len(t) - 1) : t[i] = NL /\ t[i + 1] = NL} IN
    IF separators = {} THEN <<t>>
    ELSE LET first == CHOOSE i \in separators : \A j \in separators : i <= j IN
         <<SubSeq(t, 1, first - 1)>> \o Split(SubSeq(t, first + 2, Len(t)))

\* the concatenation of a sequence of texts
RECURSIVE Concat(_)
Concat(ts) == IF ts = <<>> THEN <<>> ELSE Head(ts) \o Concat(Tail(ts))

\* ------------------------------------------------------------ Python values
\* A Python value is a record [k, n, s, d]: k its kind ("none", "num", "str",
\* "dict", "list"), n the number, s the string, d the entries of a dict (a
\* sequence of [key, val], in insertion order), the items of a list or the
\* units of a string.
None == [k |-> "none", n |-> 0, s |-> "", d |-> <<>>]
Num(n) == [k |-> "num", n |-> n, s |-> "", d |-> <<>>]
\* A string keeps, in d, the units it is written with.
Str(s) == [k |-> "str", n |-> 0, s |-> s,
           d |-> IF s = "" THEN <<>> ELSE <<Tok(s, Len(s))>>]
Dict(entries) == [k |-> "dict", n |-> 0, s |-> "", d |-> entries]
List(items) == [k |-> "list", n |-> 0, s |-> "", d |-> items]
E(key, val) == [key |-> key, val |-> val]
NA == Str("N/A")
\* JSON true and false: Python's bool is an int.
PyTrue == Num(1)
PyFalse == Num(0)

\* bool(v)
Truthy(v) ==
    CASE v.k = "none" -> FALSE
      [] v.k = "num" -> v.n # 0
      [] OTHER -> v.d # <<>>

IsNumeric(v) == v.k = "num"
IsDict(v) == v.k = "dict"

HasKey(dict, key) == \E i \in 1..Len(dict.d) : dict.d[i].key = key

\* dict.get(key, default)
Get(dict, key, default) ==
    IF HasKey(dict, key)
    THEN dict.d[CHOOSE i \in 1..Len(dict.d) : dict.d[i].key = key].val
    ELSE default

\* dict[key] = val: a new key goes last, a present key keeps its place.
Set(dict, key, val) ==
    IF HasKey(dict, key)
    THEN Dict([i \in 1..Len(dict.d) |->
                 IF dict.d[i].key = key THEN E(key, val) ELSE dict.d[i]])
    ELSE Dict(Append(dict.d, E(key, val)))

\* list(dict): the keys in insertion order
Keys(dict) == [i \in 1..Len(dict.d) |-> dict.d[i].key]

\* ------------------------------------------------------------ configuration
max_length == 4000
CHANNEL_ID == "channel"
ADMIN_ID == "admin"

\* The text of the notification at line 274 (28 characters, in Russian:
\* "could not send to the channel").
DeliveryFailedText == <<Tok("could-not-send-to-channel", 28)>>

\* ------------------------------------------------------------ HTTP responses
\* What an upstream answers: kind "error" (the request, raise_for_status or
\* the JSON decoding raises), "malformed" (JSON of a shape the client does
\* not expect) or "body" with the decoded JSON.
symbols == <<"BTC", "ETH", "XRP">>
CoinId == [BTC |-> "bitcoin", ETH |-> "ethereum", XRP |-> "ripple"]

\* The figures the upstreams report for each instrument in this model.
Sample ==
    [BTC |-> [price |-> 100, change |-> 2, TV |-> 500, OI |-> 90, LL |-> 6, SL |-> 4, TL |-> 10],
     ETH |-> [price |-> 30, change |-> 1, TV |-> 200, OI |-> 50, LL |-> 3, SL |-> 2, TL |-> 5],
     XRP |-> [price |-> 7, change |-> 3, TV |-> 150, OI |-> 20, LL |-> 8, SL |-> 1, TL |-> 9]]
SampleMarket == [btc_dominance |-> 55]

Response(kind, body) == [kind |-> kind, body |-> body]
ErrorResponse == Response("error", None)
MalformedResponse == Response("malformed", None)
\* JSON that is a list, where the client expects an object.
MalformedList == Response("malformed", List(<<Num(1)>>))

CoinQuote(sym) ==
    Dict(<<E("usd", Num(Sample[sym].price)),
           E("usd_24h_change", Num(Sample[sym].change))>>)
PricesFull ==
    Response("body", Dict([i \in 1..3 |-> E(CoinId[symbols[i]], CoinQuote(symbols[i]))]))
PricesNoBitcoin ==
    Response("body", Dict(<<E("ethereum", CoinQuote("ETH")), E("ripple", CoinQuote("XRP"))>>))
PricesNoBitcoinChange ==
    Response("body", Dict(<<E("bitcoin", Dict(<<E("usd", Num(Sample["BTC"].price))>>)),
                            E("ethereum", CoinQuote("ETH")),
                            E("ripple", CoinQuote("XRP"))>>))
PricesResponses ==
    {ErrorResponse, MalformedResponse, PricesFull, PricesNoBitcoin, PricesNoBitcoinChange}

GlobalFull ==
    Response("body", Dict(<<E("data", Dict(<<E("market_cap_percentage",
                                Dict(<<E("btc", Num(SampleMarket.btc_dominance))>>))>>))>>))
GlobalNoData == Response("body", Dict(<<E("status", Dict(<<>>))>>))
GlobalEmpty == Response("body", Dict(<<>>))
GlobalResponses ==
    {ErrorResponse, MalformedResponse, MalformedList, GlobalFull, GlobalNoData, GlobalEmpty}

\* The two answers fetch_coingecko_data gets; no second request is made
\* after a first one that raised.
GeckoInputs ==
    {in \in PricesResponses \X GlobalResponses : in[1].kind = "error" => in[2] = GlobalFull}

OverviewFull(sym) ==
    Response("body", Dict(<<E("success", PyTrue),
                            E("data", Dict(<<E("totalVolume", Num(Sample[sym].TV)),
                                             E("openInterest", Num(Sample[sym].OI))>>))>>))
OverviewNoOpenInterest(sym) ==
    Response("body", Dict(<<E("success", PyTrue),
                            E("data", Dict(<<E("totalVolume", Num(Sample[sym].TV))>>))>>))
NoSuccess == Response("body", Dict(<<E("success", PyFalse)>>))
OverviewResponses(sym) ==
    {ErrorResponse, NoSuccess, OverviewFull(sym), OverviewNoOpenInterest(sym)}

LiquidationRow(sym) ==
    Dict(<<E("longLiquidation", Num(Sample[sym].LL)),
           E("shortLiquidation", Num(Sample[sym].SL)),
           E("totalLiquidation", Num(Sample[sym].TL))>>)
LiquidationFull(sym) ==
    Response("body", Dict(<<E("success", PyTrue), E("data", List(<<LiquidationRow(sym)>>))>>))
\* A body whose data is one row instead of a list of rows.
LiquidationNotAList(sym) ==
    Response("body", Dict(<<E("success", PyTrue), E("data", LiquidationRow(sym))>>))
LiquidationResponses(sym) ==
    {ErrorResponse, NoSuccess, LiquidationFull(sym), LiquidationNotAList(sym)}

FngRow ==
    Dict(<<E("value", Str("25")), E("value_classification", Str("Fear")),
           E("timestamp", Str("1700000000"))>>)
FngFull == Response("body", Dict(<<E("data", List(<<FngRow>>))>>))
FngNoClassification ==
    Response("body", Dict(<<E("data", List(<<Dict(<<E("value", Str("25"))>>)>>))>>))
FngEmpty == Response("body", Dict(<<E("data", List(<<>>))>>))
FngResponses == {ErrorResponse, MalformedResponse, FngFull, FngNoClassification, FngEmpty}

NotRequested == Response("none", None)

\* An answer other than the complete one counts against the fault budget.
IsFault(r) ==
    r \notin ({PricesFull, GlobalFull, FngFull}
               \cup {OverviewFull(symbols[i]) : i \in 1..3}
               \cup {LiquidationFull(symbols[i]) : i \in 1..3})
Cost(r) == IF IsFault(r) THEN 1 ELSE 0

Request(api, what, symbol) == [api |-> api, what |-> what, symbol |-> symbol]

\* ------------------------------------------------------- Price/Index client
\* fetch_coingecko_data on the answers in = <<prices, global>>: what it
\* returns (ret) and the requests it made (reqs).
fetch_coingecko_data(in) ==
    LET prices_data == in[1].body
        global_data == in[2].body
        Coin(sym) == Get(prices_data, CoinId[sym], Dict(<<>>))
        Quote(sym) ==
            Dict(<<E("price", Get(Coin(sym), "usd", None)),
                   E("change_24h", Get(Coin(sym), "usd_24h_change", None))>>)
        data == Get(global_data, "data", Dict(<<>>))
        market_cap_percentage == Get(data, "market_cap_percentage", Dict(<<>>))
        \* .get on a value that is not a dict raises (lines 166-178).
        raises ==
            \/ ~IsDict(prices_data)
            \/ \E i \in 1..Len(symbols) : ~IsDict(Coin(symbols[i]))
            \/ /\ Truthy(global_data)
               /\ \/ ~IsDict(global_data)
                  \/ ~IsDict(data)
                  \/ ~IsDict(market_cap_percentage)
        dominance ==
            IF Truthy(global_data) THEN Get(market_cap_percentage, "btc", None) ELSE NA
    IN  IF in[1].kind = "error"
        THEN [ret |-> None, reqs |-> <<Request("coingecko", "price", "")>>]
        ELSE [ret |-> IF in[2].kind = "error" \/ raises
                      THEN None
                      ELSE Dict(<<E("BTC", Quote("BTC")), E("ETH", Quote("ETH")),
                                  E("XRP", Quote("XRP")), E("btc_dominance", dominance)>>),
              reqs |-> <<Request("coingecko", "price", ""),
                         Request("coingecko", "global", "")>>]

NoQuote == Dict(<<E("price", NA), E("change_24h", NA)>>)
\* The snapshot fetch_coinglass_data falls back to (lines 51-54).
UnavailableSnapshot ==
    Dict(<<E("BTC", NoQuote), E("ETH", NoQuote), E("XRP", NoQuote),
           E("btc_dominance", NA)>>)

\* ---------------------------------------------------------- Sentiment client
\* fetch_fear_greed_index on the answer r.
\* A sentiment client without its except clauses: what the request raised
\* reaches the caller in place of a reading.
fetch_fear_greed_index_uncaught(r) ==
    IF r.kind = "body"
    THEN IF Truthy(r.body) /\ Truthy(Get(r.body, "data", None))
         THEN LET latest_data == Get(r.body, "data", None).d[1] IN
              Dict(<<E("value", Get(latest_data, "value", None)),
                     E("value_classification", Get(latest_data, "value_classification", None)),
                     E("timestamp", Get(latest_data, "timestamp", None))>>)
         ELSE None
    ELSE Str("ClientError")

fetch_fear_greed_index(r) ==
    IF r.kind = "body" /\ Truthy(r.body) /\ Truthy(Get(r.body, "data", None))
    THEN LET latest_data == Get(r.body, "data", None).d[1] IN
         Dict(<<E("value", Get(latest_data, "value", None)),
                E("value_classification", Get(latest_data, "value_classification", None)),
                E("timestamp", Get(latest_data, "timestamp", None))>>)
    ELSE None

\* ------------------------------------------------------------ text of values
\* repr(v)
RECURSIVE Repr(_), ReprEntries(_), ReprItems(_)
Repr(v) ==
    CASE v.k = "none" -> "None"
      [] v.k = "num" -> ToString(v.n)
      [] v.k = "str" -> "'" \o v.s \o "'"
      [] v.k = "dict" -> "{" \o ReprEntries(v.d) \o "}"
      [] OTHER -> "[" \o ReprItems(v.d) \o "]"
ReprEntries(es) ==
    IF es = <<>> THEN ""
    ELSE "'" \o es[1].key \o "': " \o Repr(es[1].val)
         \o (IF Len(es) > 1 THEN ", " ELSE "") \o ReprEntries(Tail(es))
ReprItems(vs) ==
    IF vs = <<>> THEN ""
    ELSE Repr(vs[1]) \o (IF Len(vs) > 1 THEN ", " ELSE "") \o ReprItems(Tail(vs))

\* str(v), as an f-string renders it
TextOf(v) ==
    CASE v.k = "str" -> v.d
      [] v.k = "none" -> <<Tok("None", 4)>>
      [] v.k = "num" -> <<Tok(ToString(v.n), Len(ToString(v.n)))>>
      [] OTHER -> <<Tok(Repr(v), Len(Repr(v)))>>

\* f"{v:.2f}" of a number (the numbers of this model are naturals)
TwoDecimals(v) == <<Tok(ToString(v.n) \o ".00", Len(ToString(v.n)) + 3)>>

\* "\n".join(parts)
RECURSIVE JoinLines(_)
JoinLines(parts) ==
    IF parts = <<>> THEN <<>>
    ELSE IF Len(parts) = 1 THEN parts[1]
    ELSE parts[1] \o <<NL>> \o JoinLines(Tail(parts))

\* ---------------------------------------------------------- Report formatter
\* The fixed texts of the report, named in English, with the length of the
\* Russian text in the source.
HeaderText == <<Tok("[dashboard] <date> MSK", 32), NL>>
NoDataText == <<Tok("no data to generate the post", 38)>>
PriceLabel == <<Tok("price:", 13), SP>>
VolumeLabel == <<Tok("volume 24h:", 10), SP>>
TotalLiquidationsLabel == <<Tok("liquidations 24h (total):", 23), SP>>
LongLiquidationsLabel == <<Tok("liquidations long 24h:", 20), SP>>
ShortLiquidationsLabel == <<Tok("liquidations short 24h:", 20), SP>>
OpenInterestLabel == <<Tok("open interest (OI):", 22), SP>>
NoCoinglassText == <<Tok("coinglass data unavailable.", 28), NL>>
DominanceLabel == <<Tok("BTC dominance:", 14), SP>>
NoDominanceText == <<Tok("BTC dominance unavailable.", 25), NL>>
FearGreedLabel == <<Tok("fear and greed index:", 25), SP>>
NoFearGreedText == <<Tok("fear and greed index unavailable.", 36), NL>>
Percent == Tok("%", 1)

\* A formatter that leaves out an instrument it has no price for.
InstrumentPartsOnlyWithPrice(symbol, data) ==
    LET price == Get(data, "current_price", NA)
        change_24h == Get(data, "change_24h", NA)
    IN  IF IsNumeric(price) /\ IsNumeric(change_24h)
        THEN << <<Tok(symbol \o ":", Len(symbol) + 1), SP>>,
                PriceLabel \o TwoDecimals(price) \o <<SP>> \o TwoDecimals(change_24h)
                    \o <<Percent, SP>>,
                VolumeLabel \o TextOf(Get(data, "volume_24h", NA)),
                TotalLiquidationsLabel \o TextOf(Get(data, "total_liquidations_24h", NA)),
                LongLiquidationsLabel \o TextOf(Get(data, "long_liquidations_24h", NA)),
                ShortLiquidationsLabel \o TextOf(Get(data, "short_liquidations_24h", NA)),
                OpenInterestLabel \o TextOf(Get(data, "open_interest", NA)) \o <<NL>> >>
        ELSE <<>>

\* The parts appended for one instrument (lines 199-216).
InstrumentParts(symbol, data) ==
    LET price == Get(data, "current_price", NA)
        change_24h == Get(data, "change_24h", NA)
    IN  << <<Tok(symbol \o ":", Len(symbol) + 1), SP>>,
           IF IsNumeric(price) /\ IsNumeric(change_24h)
           THEN PriceLabel \o TwoDecimals(price) \o <<SP>> \o TwoDecimals(change_24h)
                \o <<Percent, SP>>
           ELSE IF change_24h # NA
                THEN PriceLabel \o TextOf(price) \o <<SP>> \o TextOf(change_24h)
                     \o <<Percent>>
                ELSE <<>>,
           VolumeLabel \o TextOf(Get(data, "volume_24h", NA)),
           TotalLiquidationsLabel \o TextOf(Get(data, "total_liquidations_24h", NA)),
           LongLiquidationsLabel \o TextOf(Get(data, "long_liquidations_24h", NA)),
           ShortLiquidationsLabel \o TextOf(Get(data, "short_liquidations_24h", NA)),
           OpenInterestLabel \o TextOf(Get(data, "open_interest", NA)) \o <<NL>> >>

RECURSIVE AllInstrumentParts(_)
AllInstrumentParts(entries) ==
    IF entries = <<>> THEN <<>>
    ELSE InstrumentParts(entries[1].key, entries[1].val)
         \o AllInstrumentParts(Tail(entries))

\* The parts for dominance (lines 220-229): none when there is no snapshot.
DominanceParts(coingecko_data_) ==
    LET btc_dominance == Get(coingecko_data_, "btc_dominance", None) IN
    IF Truthy(coingecko_data_) /\ btc_dominance # None /\ btc_dominance # NA
    THEN IF IsNumeric(btc_dominance)
         THEN << DominanceLabel \o TwoDecimals(btc_dominance) \o <<Percent, NL>> >>
         ELSE << DominanceLabel \o TextOf(btc_dominance) \o <<Percent, NL>> >>
    ELSE IF Truthy(coingecko_data_) THEN <<NoDominanceText>>
    ELSE <<>>

\* The part for the sentiment reading (lines 231-236).
FearGreedParts(fear_greed_data_) ==
    IF Truthy(fear_greed_data_)
    THEN << FearGreedLabel \o TextOf(Get(fear_greed_data_, "value", NA)) \o <<SP>>
            \o TextOf(Get(fear_greed_data_, "value_classification", NA)) \o <<NL>> >>
    ELSE <<NoFearGreedText>>

\* A formatter that gives up as soon as one input is absent.
generate_dashboard_post_any_absent(coinglass_data_, fear_greed_data_, coingecko_data_) ==
    IF ~Truthy(coinglass_data_) \/ ~Truthy(fear_greed_data_) \/ ~Truthy(coingecko_data_)
    THEN NoDataText
    ELSE JoinLines(<<HeaderText>>
                   \o AllInstrumentParts(coinglass_data_.d)
                   \o DominanceParts(coingecko_data_)
                   \o FearGreedParts(fear_greed_data_))

generate_dashboard_post(coinglass_data_, fear_greed_data_, coingecko_data_) ==
    IF ~Truthy(coinglass_data_) /\ ~Truthy(fear_greed_data_) /\ ~Truthy(coingecko_data_)
    THEN NoDataText
    ELSE JoinLines(<<HeaderText>>
                   \o (IF Truthy(coinglass_data_)
                       THEN AllInstrumentParts(coinglass_data_.d)
                       ELSE <<NoCoinglassText>>)
                   \o DominanceParts(coingecko_data_)
                   \o FearGreedParts(fear_greed_data_))

\* ------------------------------------------------------ Manual-override parser
\* An operator's text is a sequence of units: words and the marks the parser
\* looks for.
Word(s) == Tok(s, Len(s))
Semicolon == Tok(";", 1)
Colon == Tok(":", 1)
Comma == Tok(",", 1)
Equals == Tok("=", 1)

\* str.upper() and str.lower() of the words of this model
Upper(c) ==
    CASE c = "btc" -> "BTC" [] c = "tv" -> "TV" [] c = "n/a" -> "N/A"
      [] c = "N/a" -> "N/A" [] c = "hello" -> "HELLO" [] OTHER -> c
Lower(c) ==
    CASE c = "BTC" -> "btc" [] c = "ETH" -> "eth" [] c = "XRP" -> "xrp"
      [] c = "DOGE" -> "doge" [] c = "TV" -> "tv" [] c = "TL" -> "tl"
      [] c = "LL" -> "ll" [] c = "SL" -> "sl" [] c = "OI" -> "oi"
      [] c = "N/A" -> "n/a" [] c = "500M" -> "500m" [] c = "10M" -> "10m"
      [] c = "50K" -> "50k" [] c = "N/a" -> "n/a" [] c = "100M" -> "100m"
      [] c = "200M" -> "200m" [] c = "2M" -> "2m" [] c = "1.5M" -> "1.5m"
      [] c = "0.5M" -> "0.5m" [] c = "20K" -> "20k" [] c = "100K" -> "100k"
      [] OTHER -> c

\* The Python string a sequence of units spells.
RECURSIVE StrOf(_)
StrOf(t) == IF t = <<>> THEN "" ELSE Head(t).c \o StrOf(Tail(t))
RECURSIVE UpperOf(_)
UpperOf(t) == IF t = <<>> THEN "" ELSE Upper(Head(t).c) \o UpperOf(Tail(t))
RECURSIVE LowerOf(_)
LowerOf(t) == IF t = <<>> THEN "" ELSE Lower(Head(t).c) \o LowerOf(Tail(t))

\* The string value of a piece of the operator's text.
StrT(t) == [k |-> "str", n |-> 0, s |-> StrOf(t), d |-> t]

Contains(t, mark) == \E i \in 1..Len(t) : t[i] = mark

\* str.split(mark)
RECURSIVE SplitOnAcc(_, _, _)
SplitOnAcc(rest, mark, cur) ==
    IF rest = <<>> THEN <<cur>>
    ELSE IF Head(rest) = mark THEN <<cur>> \o SplitOnAcc(Tail(rest), mark, <<>>)
    ELSE SplitOnAcc(Tail(rest), mark, Append(cur, Head(rest)))
SplitOn(t, mark) == SplitOnAcc(t, mark, <<>>)

\* str.split(mark, 1) of a text that holds the mark
SplitFirst(t, mark) ==
    LET i == CHOOSE i \in 1..Len(t) : t[i] = mark /\ \A j \in 1..(i - 1) : t[j] # mark
    IN  <<SubSeq(t, 1, i - 1), SubSeq(t, i + 1, Len(t))>>

\* The details of one clause (lines 500-505): its KEY=VALUE fields.
RECURSIVE ParseDetails(_, _)
ParseDetails(parts, details) ==
    IF parts = <<>> THEN details
    ELSE LET part == Head(parts) IN
         IF Contains(part, Equals)
         THEN LET kv == SplitFirst(part, Equals) IN
              ParseDetails(Tail(parts),
                           Set(details, StrOf(Strip(kv[1])), StrT(Strip(kv[2]))))
         ELSE ParseDetails(Tail(parts), details)

ManualMetrics(details) ==
    Dict(<<E("volume_24h", Get(details, "TV", NA)),
           E("total_liquidations_24h", Get(details, "TL", NA)),
           E("long_liquidations_24h", Get(details, "LL", NA)),
           E("short_liquidations_24h", Get(details, "SL", NA)),
           E("open_interest", Get(details, "OI", NA))>>)

\* The loop over the clauses (lines 496-513).
RECURSIVE ParseCoins(_, _)
ParseCoins(coins_data_str, parsed) ==
    IF coins_data_str = <<>> THEN parsed
    ELSE LET coin_str == Head(coins_data_str) IN
         IF Contains(coin_str, Colon)
         THEN LET nd == SplitFirst(coin_str, Colon)
                  coin_name == UpperOf(Strip(nd[1]))
                  details == ParseDetails(SplitOn(nd[2], Comma), Dict(<<>>))
              IN  ParseCoins(Tail(coins_data_str),
                             IF coin_name \in {"BTC", "ETH", "XRP"}
                             THEN Set(parsed, coin_name, ManualMetrics(details))
                             ELSE parsed)
         ELSE ParseCoins(Tail(coins_data_str), parsed)

\* coinglass_parsed_data after lines 493-513.
ParseManualInput(coinglass_input_text) ==
    IF LowerOf(Strip(coinglass_input_text)) # "n/a"
    THEN ParseCoins(SplitOn(coinglass_input_text, Semicolon), Dict(<<>>))
    ELSE Dict(<<>>)

\* The snapshot the manual path falls back to for the prices (line 519).
UnavailablePrices == Dict(<<E("BTC", NA), E("ETH", NA), E("XRP", NA)>>)

\* Lines 522-525: every instrument gets an entry and its current_price.
RECURSIVE AddPrices(_, _, _)
AddPrices(parsed, coingecko_prices_, i) ==
    IF i > Len(symbols) THEN parsed
    ELSE LET symbol == symbols[i]
             entry == Get(parsed, symbol, Dict(<<>>))
         IN  AddPrices(Set(parsed, symbol,
                           Set(entry, "current_price", Get(coingecko_prices_, symbol, NA))),
                       coingecko_prices_, i + 1)

\* A value of LongValueLen characters: with it the metric lines of an
\* instrument fit one chunk, and do not fit it together with the header.
LongValueLen == 3880
LongValue == Tok("L", LongValueLen)

\* The texts an operator answers the request for manual data with.
ManualTexts ==
    { <<Word("N/A")>>,
      <<SP, Word("n/a"), NL>>,
      <<Word("hello")>>,
      <<Word("BTC"), Colon, SP, Word("TV"), Equals, Word("500M"), Comma, SP,
        Word("TL"), Equals, Word("10M"), Semicolon, SP,
        Word("ETH"), Colon, SP, Word("OI"), Equals, Word("50K")>>,
      <<Word("ETH"), Colon, Word("OI"), Equals, Word("50K"), Semicolon,
        Word("btc"), Colon, Word("tv"), Equals, Word("500M"), Comma, Word("LL")>>,
      <<Word("DOGE"), Colon, Word("TV"), Equals, Word("10M"), Semicolon,
        Word("XRP"), Word("TV"), Equals, Word("10M")>>,
      <<Word("BTC"), Colon, Word("TV"), Equals, LongValue>> }

\* ---------------------------------------------------------- operator texts
MaxClauses == 2

\* A KEY=VALUE field as the operator types it.
Field(key, value) == <<Word(key), Equals, Word(value)>>

\* The clauses an operator's text is made of: the ones of the example in the
\* request for the data, and the ways of writing a clause that the parser
\* has a branch for.
Clauses ==
    { <<Word("BTC"), Colon, SP>> \o Field("TV", "500M") \o <<Comma, SP>>
          \o Field("TL", "10M"),
      <<SP, Word("ETH"), Colon, SP>> \o Field("OI", "50K"),
      <<Word("XRP"), Colon>> \o Field("TV", "100M") \o <<Comma>> \o Field("TL", "2M")
          \o <<Comma>> \o Field("LL", "1.5M") \o <<Comma>> \o Field("SL", "0.5M")
          \o <<Comma>> \o Field("OI", "20K"),
      <<Word("btc"), Colon>> \o Field("OI", "100K"),
      <<Word("BTC"), Colon, SP>> \o Field("tv", "1"),
      <<Word("BTC"), SP>> \o Field("TV", "500M"),
      <<Word("ETH"), Colon, SP, Word("LL"), Comma, SP>> \o Field("SL", "2M"),
      <<Word("DOGE"), Colon, SP>> \o Field("TV", "10M"),
      <<Word("XRP"), Colon, SP, Word("TV"), Equals>>,
      <<Word("ETH"), Colon>> \o Field("TV", "200M") \o <<Comma>> \o Field("TV", "N/A"),
      <<NL, Word("ETH"), SP, Colon, SP, Word("OI"), SP, Equals, SP, Word("50K"), SP>>,
      <<Word("BTC"), Colon>> \o Field("OI", "90") \o <<Colon, Word("1")>>,
      <<Word("N/A")>>,
      <<>> }

\* Texts of n clauses, a semicolon between them.
RECURSIVE TextsOfClauses(_)
TextsOfClauses(n) ==
    IF n = 1 THEN Clauses
    ELSE {t \o <<Semicolon>> \o c : t \in TextsOfClauses(n - 1), c \in Clauses}

OperatorTexts ==
    UNION {TextsOfClauses(n) : n \in 1..MaxClauses}
        \cup ManualTexts \cup {<<Word("n/a")>>, <<Word("N/a"), SP>>}

\* ---------------------------------------------------------------- chunking
\* The for-loop of publish_post_to_channel over the paragraphs, with the
\* append that follows it.
Fits(current_chunk, para) ==
    TextLen(current_chunk) + TextLen(para) + 2 <= max_length

RECURSIVE ChunkLoop(_, _, _)
ChunkLoop(paragraphs, chunks_, current_chunk) ==
    IF paragraphs = <<>>
    THEN IF current_chunk # <<>> THEN Append(chunks_, current_chunk) ELSE chunks_
    ELSE LET para == Head(paragraphs) IN
         IF Fits(current_chunk, para)
         THEN ChunkLoop(Tail(paragraphs), chunks_, current_chunk \o para \o <<NL, NL>>)
         ELSE ChunkLoop(Tail(paragraphs),
                        IF current_chunk # <<>> THEN Append(chunks_, current_chunk)
                                                ELSE chunks_,
                        para \o <<NL, NL>>)

\* The chunking without the append that follows the loop.
MakeChunksNoFlush(text) ==
    LET cs == ChunkLoop(Split(text), <<>>, <<>>) IN SubSeq(cs, 1, Len(cs) - 1)

MakeChunks(text) == ChunkLoop(Split(text), <<>>, <<>>)

\* ------------------------------------------------------------------- state
VARIABLES
    post_text,  \* the argument of publish_post_to_channel
    chunks,     \* its list of chunks
    chunk_i,    \* the index of the chunk the send loop is at (from 1)
    pub_pc,     \* "idle", "start", "send", "notify" (of the failure) or "done"
    pub_ret,    \* "none" while running, then "True", "False" or "raised"
    sends,      \* every send_message call so far: [chat_id, text, ok]
    sleeps,     \* the number of asyncio.sleep(1) pauses taken
    COINGLASS_API_KEY, \* the credential: "None", "" or a key
    jobs,       \* the handlers of the operator's updates that run side by side
    cycles,     \* the report cycles that publish side by side
    requests,   \* every HTTP request so far: [api, what, symbol]
    faults_left,       \* how many more upstream answers may be faulty
    cg_pc,      \* fetch_coinglass_data: "idle", "start", "global" (the
                \* second request for its prices), "overview",
                \* "liquidation" or "done"
    cg_sym,     \* the index in symbols of the instrument its loop is at
    coinglass_data,    \* its dict of metrics
    coingecko_prices,  \* its snapshot of prices
    cg_answers, \* what the upstream answered for each instrument
    cg_ret,     \* its return value
    user_data,  \* context.user_data of each user: the two waiting flags
    update,     \* the update being handled: [user, text]
    handler,    \* the handler it was dispatched to
    h_pc,       \* where that handler is; "idle" when none is running
    h_ret,      \* how it ended: "none", "returned" or "raised"
    target_chat_id,         \* locals of the handlers
    coinglass_parsed_data,
    fear_greed_data,
    coingecko_data,
    post_to_publish,
    answers     \* what the upstream answered the latest client call so far

pubVars == <<post_text, chunks, chunk_i, pub_pc, pub_ret, sleeps>>
cgVars == <<cg_pc, cg_sym, coinglass_data, coingecko_prices, cg_answers, cg_ret>>
locals == <<target_chat_id, coinglass_parsed_data, fear_greed_data, coingecko_data,
            post_to_publish, answers>>
botVars == <<user_data, update, handler, h_pc, h_ret, locals>>
\* The handlers that run side by side; one update at a time leaves them alone.
concurrentVars == <<jobs, cycles>>
vars == <<post_text, chunks, chunk_i, pub_pc, pub_ret, sends, sleeps,
          COINGLASS_API_KEY, concurrentVars, requests, faults_left,
          cg_pc, cg_sym, coinglass_data, coingecko_prices, cg_answers, cg_ret,
          botVars>>

Msg(chat, text, ok) == [chat_id |-> chat, text |-> text, ok |-> ok]

\* The texts a chat has received, in order.
RECURSIVE Received(_, _)
Received(log, chat) ==
    IF log = <<>> THEN <<>>
    ELSE IF Head(log).chat_id = chat /\ Head(log).ok
         THEN <<Head(log).text>> \o Received(Tail(log), chat)
         ELSE Received(Tail(log), chat)

\* The send_message calls addressed to a chat, delivered or not.
RECURSIVE Calls(_, _)
Calls(log, chat) ==
    IF log = <<>> THEN <<>>
    ELSE IF Head(log).chat_id = chat
         THEN <<Head(log)>> \o Calls(Tail(log), chat)
         ELSE Calls(Tail(log), chat)

\* ---------------------------------------------------------------- delivery
\* publish_post_to_channel up to its send loop: the chunking and the
\* empty-post return.
PublishStart ==
    /\ pub_pc = "start"
    /\ chunks' = MakeChunks(post_text)
    /\ IF chunks' = <<>>
       THEN pub_pc' = "done" /\ pub_ret' = "False"
       ELSE pub_pc' = "send" /\ pub_ret' = "none"
    /\ chunk_i' = 1
    /\ UNCHANGED <<post_text, sends, sleeps>>
    /\ UNCHANGED <<COINGLASS_API_KEY, concurrentVars, requests, faults_left, cgVars, botVars>>

\* A send loop that pauses after every chunk, the last one too.
SendChunkOkAlwaysPausing ==
    /\ pub_pc = "send"
    /\ sends' = Append(sends, Msg(CHANNEL_ID, Strip(chunks[chunk_i]), TRUE))
    /\ sleeps' = sleeps + 1
    /\ IF chunk_i < Len(chunks)
       THEN /\ chunk_i' = chunk_i + 1
            /\ UNCHANGED <<pub_pc, pub_ret>>
       ELSE /\ pub_pc' = "done"
            /\ pub_ret' = "True"
            /\ UNCHANGED chunk_i
    /\ UNCHANGED <<post_text, chunks>>
    /\ UNCHANGED <<COINGLASS_API_KEY, concurrentVars, requests, faults_left, cgVars, botVars>>

\* One pass of the send loop in which send_message returns: the pause when
\* chunks remain, the return of True after the last one.
SendChunkOk ==
    /\ pub_pc = "send"
    /\ sends' = Append(sends, Msg(CHANNEL_ID, Strip(chunks[chunk_i]), TRUE))
    /\ IF chunk_i < Len(chunks)
       THEN /\ sleeps' = sleeps + 1
            /\ chunk_i' = chunk_i + 1
            /\ UNCHANGED <<pub_pc, pub_ret>>
       ELSE /\ pub_pc' = "done"
            /\ pub_ret' = "True"
            /\ UNCHANGED <<sleeps, chunk_i>>
    /\ UNCHANGED <<post_text, chunks>>
    /\ UNCHANGED <<COINGLASS_API_KEY, concurrentVars, requests, faults_left, cgVars, botVars>>

\* A failed send the loop passes over: it goes on to the next chunk.
SendChunkFailContinue ==
    /\ pub_pc = "send"
    /\ sends' = Append(sends, Msg(CHANNEL_ID, Strip(chunks[chunk_i]), FALSE))
    /\ IF chunk_i < Len(chunks)
       THEN chunk_i' = chunk_i + 1 /\ UNCHANGED <<pub_pc, pub_ret>>
       ELSE pub_pc' = "done" /\ pub_ret' = "True" /\ UNCHANGED chunk_i
    /\ UNCHANGED <<post_text, chunks, sleeps>>
    /\ UNCHANGED <<COINGLASS_API_KEY, concurrentVars, requests, faults_left, cgVars, botVars>>

\* One pass of the send loop in which send_message raises (lines 264-273):
\* the except branch is entered and awaits the notification of the
\* administrator.
SendChunkFail ==
    /\ pub_pc = "send"
    /\ sends' = Append(sends, Msg(CHANNEL_ID, Strip(chunks[chunk_i]), FALSE))
    /\ pub_pc' = "notify"
    /\ UNCHANGED <<post_text, chunks, chunk_i, pub_ret, sleeps>>
    /\ UNCHANGED <<COINGLASS_API_KEY, concurrentVars, requests, faults_left, cgVars, botVars>>

\* The notification of the administrator (lines 274-275): when it returns
\* the function returns False; when it raises too, the exception leaves the
\* function.
NotifyAdmin ==
    /\ pub_pc = "notify"
    /\ \E notified \in BOOLEAN :
         /\ sends' = Append(sends, Msg(ADMIN_ID, DeliveryFailedText, notified))
         /\ pub_ret' = IF notified THEN "False" ELSE "raised"
    /\ pub_pc' = "done"
    /\ UNCHANGED <<post_text, chunks, chunk_i, sleeps>>
    /\ UNCHANGED <<COINGLASS_API_KEY, concurrentVars, requests, faults_left, cgVars, botVars>>

\* -------------------------------------------------------- Derivatives client
\* The credential check that lets the empty string through.
KeyPresentNotNone == COINGLASS_API_KEY # "None"

\* Line 37: `if not COINGLASS_API_KEY`.
KeyPresent == COINGLASS_API_KEY \notin {"None", ""}

\* The metrics the except branches and the else branch of the overview store
\* (lines 80-83, 102-111).
Unavailable(current_price, change_24h) ==
    Dict(<<E("current_price", current_price), E("change_24h", change_24h),
           E("volume_24h", NA), E("open_interest", NA),
           E("long_liquidations_24h", NA), E("short_liquidations_24h", NA),
           E("total_liquidations_24h", NA)>>)

\* Lines 59-61.
PriceData(symbol) == Get(coingecko_prices, symbol, NoQuote)
CurrentPrice(symbol) == Get(PriceData(symbol), "price", NA)
Change24h(symbol) == Get(PriceData(symbol), "change_24h", NA)

\* The metrics stored after the overview request returned r (lines 67-83).
AfterOverview(symbol, r) ==
    IF Truthy(r.body) /\ Truthy(Get(r.body, "success", None))
       /\ Truthy(Get(r.body, "data", None))
    THEN LET latest_data == Get(r.body, "data", None) IN
         Dict(<<E("current_price", CurrentPrice(symbol)),
                E("change_24h", Change24h(symbol)),
                E("volume_24h", Get(latest_data, "totalVolume", NA)),
                E("open_interest", Get(latest_data, "openInterest", NA)),
                E("long_liquidations_24h", NA), E("short_liquidations_24h", NA),
                E("total_liquidations_24h", NA)>>)
    ELSE Unavailable(CurrentPrice(symbol), Change24h(symbol))

\* The metrics of the instrument after the liquidation request returned r
\* (lines 89-98); an exception there overwrites them all (lines 100-111).
AfterLiquidation(symbol, metrics, r) ==
    IF r.kind = "error"
    THEN Unavailable(CurrentPrice(symbol), Change24h(symbol))
    ELSE IF Truthy(r.body) /\ Truthy(Get(r.body, "success", None))
            /\ Truthy(Get(r.body, "data", None))
    THEN LET data == Get(r.body, "data", None) IN
         IF data.k = "list"
         THEN LET latest == data.d[1] IN
              Set(Set(Set(metrics,
                  "long_liquidations_24h", Get(latest, "longLiquidation", NA)),
                  "short_liquidations_24h", Get(latest, "shortLiquidation", NA)),
                  "total_liquidations_24h", Get(latest, "totalLiquidation", NA))
         ELSE Unavailable(CurrentPrice(symbol), Change24h(symbol))
    ELSE metrics

\* The loop moves to the next instrument, or the function returns its dict.
NextInstrument(data) ==
    IF cg_sym < Len(symbols)
    THEN cg_sym' = cg_sym + 1 /\ cg_pc' = "overview" /\ cg_ret' = cg_ret
    ELSE cg_sym' = cg_sym /\ cg_pc' = "done" /\ cg_ret' = data

\* What the handlers hold while a client runs.
handlerUnchanged ==
    <<user_data, update, handler, h_pc, h_ret, target_chat_id, coinglass_parsed_data,
      fear_greed_data, coingecko_data, post_to_publish>>

\* fetch_coinglass_data up to the answer to the price request of its
\* snapshot (lines 35-48, 157-159): the return of None without a
\* credential; the fallback snapshot when the request raises (lines 51-54).
FetchCoinglassStart ==
    /\ cg_pc = "start"
    /\ IF ~KeyPresent
       THEN /\ cg_pc' = "done"
            /\ cg_ret' = None
            /\ UNCHANGED <<requests, faults_left, cg_sym, coinglass_data,
                           coingecko_prices, cg_answers, answers>>
       ELSE \E prices \in PricesResponses :
            /\ Cost(prices) <= faults_left
            /\ faults_left' = faults_left - Cost(prices)
            /\ requests' = Append(requests, Request("coingecko", "price", ""))
            /\ answers' = <<prices>>
            /\ IF prices.kind = "error"
               THEN /\ coingecko_prices' = UnavailableSnapshot
                    /\ cg_pc' = "overview"
               ELSE /\ UNCHANGED coingecko_prices
                    /\ cg_pc' = "global"
            /\ coinglass_data' = Dict(<<>>)
            /\ cg_sym' = 1
            /\ UNCHANGED <<cg_answers, cg_ret>>
    /\ UNCHANGED <<COINGLASS_API_KEY, concurrentVars, pubVars, sends, handlerUnchanged>>

\* The answer to the global request of the snapshot (lines 161-181, 49-56):
\* the snapshot, or the fallback when the client returned None.
FetchCoinglassGlobal ==
    /\ cg_pc = "global"
    /\ \E global \in GlobalResponses :
         LET got == fetch_coingecko_data(<<answers[1], global>>) IN
         /\ Cost(global) <= faults_left
         /\ faults_left' = faults_left - Cost(global)
         /\ requests' = Append(requests, Request("coingecko", "global", ""))
         /\ answers' = <<answers[1], global>>
         /\ coingecko_prices' = IF Truthy(got.ret) THEN got.ret ELSE UnavailableSnapshot
    /\ cg_pc' = "overview"
    /\ UNCHANGED <<cg_sym, coinglass_data, cg_answers, cg_ret>>
    /\ UNCHANGED <<COINGLASS_API_KEY, concurrentVars, pubVars, sends, handlerUnchanged>>

\* The overview request with the try around the loop instead of inside it:
\* the first request that raises ends the loop.
CoinglassOverviewAborting ==
    /\ cg_pc = "overview"
    /\ LET symbol == symbols[cg_sym] IN
       \E r \in OverviewResponses(symbol) :
         /\ Cost(r) <= faults_left
         /\ faults_left' = faults_left - Cost(r)
         /\ requests' = Append(requests, Request("coinglass", "openInterest", symbol))
         /\ cg_answers' = [cg_answers EXCEPT ![symbol].overview = r]
         /\ IF r.kind = "error"
            THEN /\ coinglass_data' =
                       Set(coinglass_data, symbol,
                           Unavailable(CurrentPrice(symbol), Change24h(symbol)))
                 /\ cg_pc' = "done"
                 /\ cg_ret' = coinglass_data'
                 /\ UNCHANGED cg_sym
            ELSE /\ coinglass_data' = Set(coinglass_data, symbol, AfterOverview(symbol, r))
                 /\ cg_pc' = "liquidation"
                 /\ UNCHANGED <<cg_sym, cg_ret>>
    /\ UNCHANGED <<COINGLASS_API_KEY, concurrentVars, pubVars, sends, coingecko_prices, botVars>>

\* The overview request of the instrument the loop is at (lines 58-83, and
\* the except branches when it raises).
CoinglassOverview ==
    /\ cg_pc = "overview"
    /\ LET symbol == symbols[cg_sym] IN
       \E r \in OverviewResponses(symbol) :
         /\ Cost(r) <= faults_left
         /\ faults_left' = faults_left - Cost(r)
         /\ requests' = Append(requests, Request("coinglass", "openInterest", symbol))
         /\ cg_answers' = [cg_answers EXCEPT ![symbol].overview = r]
         /\ IF r.kind = "error"
            THEN /\ coinglass_data' =
                       Set(coinglass_data, symbol,
                           Unavailable(CurrentPrice(symbol), Change24h(symbol)))
                 /\ NextInstrument(coinglass_data')
            ELSE /\ coinglass_data' = Set(coinglass_data, symbol, AfterOverview(symbol, r))
                 /\ cg_pc' = "liquidation"
                 /\ UNCHANGED <<cg_sym, cg_ret>>
    /\ UNCHANGED <<COINGLASS_API_KEY, concurrentVars, pubVars, sends, coingecko_prices, botVars>>

\* The liquidation-history request of the instrument (lines 85-98, and the
\* except branches when it raises).
CoinglassLiquidation ==
    /\ cg_pc = "liquidation"
    /\ LET symbol == symbols[cg_sym] IN
       \E r \in LiquidationResponses(symbol) :
         /\ Cost(r) <= faults_left
         /\ faults_left' = faults_left - Cost(r)
         /\ requests' = Append(requests, Request("coinglass", "liquidation", symbol))
         /\ cg_answers' = [cg_answers EXCEPT ![symbol].liquidation = r]
         /\ coinglass_data' =
               Set(coinglass_data, symbol,
                   AfterLiquidation(symbol, Get(coinglass_data, symbol, None), r))
         /\ NextInstrument(coinglass_data')
    /\ UNCHANGED <<COINGLASS_API_KEY, concurrentVars, pubVars, sends, coingecko_prices, botVars>>

\* ------------------------------------------------------------------ the bot
MaxFaultsBot == 2

NoAnswers == [sym \in {"BTC", "ETH", "XRP"} |->
                [overview |-> NotRequested, liquidation |-> NotRequested]]

Users == {ADMIN_ID, "guest"}
NoFlags == [waiting_for_manual_coinglass_input_channel |-> FALSE,
            waiting_for_manual_coinglass_input_admin |-> FALSE]
NoUpdate == [user |-> "none", text |-> <<>>]

\* The fixed texts of the handlers, each with the length of the original.
InfoText == <<Tok("info", 92)>>
InsufficientRightsText == <<Tok("insufficient-rights", 24)>>
StartingText(h) ==
    IF h = "test_command" THEN <<Tok("starting-test", 57)>>
                          ELSE <<Tok("starting-report", 75)>>
ConfigWarningText(h) ==
    CASE h = "autopost_dashboard" -> <<Tok("coinglass-not-connected-autopost", 185)>>
      [] h = "test_command" -> <<Tok("coinglass-not-connected-test", 184)>>
      [] OTHER -> <<Tok("coinglass-not-connected-report", 170)>>
ApiErrorText(h) ==
    CASE h = "autopost_dashboard" -> <<Tok("coinglass-api-error-autopost", 212)>>
      [] h = "test_command" -> <<Tok("coinglass-api-error-test", 211)>>
      [] OTHER -> <<Tok("coinglass-api-error-report", 197)>>
ExceptionText == Tok("str(e)", 6)
TestOkText == <<Tok("test-post-sent", 51)>>
TestErrorText == <<Tok("error-sending-test-post", 37), ExceptionText>>
TestNotPreparedText == <<Tok("test-post-not-prepared", 46)>>
ReportOkText == <<Tok("report-published", 61)>>
ReportFailedText == <<Tok("report-not-published", 79)>>
ReportNotPreparedText == <<Tok("report-not-prepared", 55)>>
PromptText(h) ==
    IF h = "report_admin_command" THEN <<Tok("enter-coinglass-data", 666)>>
                                  ELSE <<Tok("enter-coinglass-data-test", 690)>>
GotDataText == <<Tok("got-coinglass-data", 46)>>
ManualOkText == <<Tok("manual-report-published", 81)>>
ManualFailedText == <<Tok("manual-report-not-published", 97)>>
ManualTestOkText == <<Tok("manual-test-post-sent", 79)>>
ManualErrorText == <<Tok("error-sending-manual-post", 45), ExceptionText>>
ManualNotPreparedText == <<Tok("manual-post-not-prepared", 63)>>

Outcome(ok) == IF ok THEN "returned" ELSE "raised"

\* A new update reaches its handler: what the previous one left behind is
\* gone, and the upstream may fail MaxFaultsBot times while it is handled.
Dispatch(user, text, h) ==
    /\ h_pc = "idle"
    /\ update' = [user |-> user, text |-> text]
    /\ handler' = h
    /\ requests' = <<>>
    /\ faults_left' = MaxFaultsBot
    /\ post_text' = <<>> /\ chunks' = <<>> /\ chunk_i' = 1
    /\ pub_pc' = "idle" /\ pub_ret' = "none" /\ sleeps' = 0
    /\ cg_sym' = 1 /\ coinglass_data' = Dict(<<>>) /\ coingecko_prices' = None
    /\ cg_answers' = NoAnswers /\ cg_ret' = None
    /\ fear_greed_data' = None /\ coingecko_data' = None /\ post_to_publish' = <<>>
    /\ answers' = <<>>
    /\ UNCHANGED <<COINGLASS_API_KEY, concurrentVars>>

\* A handler that only replies with one text.
OnlyReply(user, text) ==
    /\ \E ok \in BOOLEAN :
         /\ sends' = <<Msg(user, text, ok)>>
         /\ h_ret' = Outcome(ok)
    /\ h_pc' = "idle"
    /\ cg_pc' = "idle"
    /\ target_chat_id' = "none"
    /\ coinglass_parsed_data' = Dict(<<>>)
    /\ UNCHANGED user_data

\* /start from anyone (lines 352-353).
start ==
    \E user \in Users :
      /\ Dispatch(user, <<>>, "start")
      /\ OnlyReply(user, InfoText)

\* A text that is not a command, from anyone but the administrator
\* (lines 348-350, 600).
handle_non_admin_messages ==
    \E text \in ManualTexts :
      /\ Dispatch("guest", text, "handle_non_admin_messages")
      /\ OnlyReply("guest", InfoText)

\* /report_admin and /report_admin_test (lines 460-475, 567-582): the flag
\* is set once the request for the data has been sent.
AskForManualInput(h, flag) ==
    \E user \in Users :
      /\ Dispatch(user, <<>>, h)
      /\ IF user # ADMIN_ID
         THEN OnlyReply(user, InsufficientRightsText)
         ELSE /\ \E ok \in BOOLEAN :
                   /\ sends' = <<Msg(user, PromptText(h), ok)>>
                   /\ h_ret' = Outcome(ok)
                   /\ user_data' = IF ok THEN [user_data EXCEPT ![user][flag] = TRUE]
                                         ELSE user_data
              /\ h_pc' = "idle"
              /\ cg_pc' = "idle"
              /\ target_chat_id' = "none"
              /\ coinglass_parsed_data' = Dict(<<>>)

report_admin_command ==
    AskForManualInput("report_admin_command", "waiting_for_manual_coinglass_input_channel")

report_admin_test_command ==
    AskForManualInput("report_admin_test_command", "waiting_for_manual_coinglass_input_admin")

\* The automated reports ---------------------------------------------------
KeyMissing == COINGLASS_API_KEY = "None" \/ COINGLASS_API_KEY = ""

\* /report and /test without the check of the sender.
BeginCommandForAnyone(h) ==
    \E user \in Users :
      /\ Dispatch(user, <<>>, h)
      /\ \E ok \in BOOLEAN :
           /\ sends' = <<Msg(user, StartingText(h), ok)>>
           /\ h_ret' = IF ok THEN "none" ELSE "raised"
           /\ h_pc' = IF ok THEN "coinglass" ELSE "idle"
           /\ cg_pc' = IF ok THEN "start" ELSE "idle"
      /\ target_chat_id' = "none"
      /\ coinglass_parsed_data' = Dict(<<>>)
      /\ UNCHANGED user_data

\* /report and /test up to the call of fetch_coinglass_data (lines 355-364,
\* 405-416).
BeginCommand(h) ==
    \E user \in Users :
      /\ Dispatch(user, <<>>, h)
      /\ IF user # ADMIN_ID
         THEN OnlyReply(user, InsufficientRightsText)
         ELSE /\ \E ok \in BOOLEAN :
                   /\ sends' = <<Msg(user, StartingText(h), ok)>>
                   /\ h_ret' = IF ok THEN "none" ELSE "raised"
                   /\ h_pc' = IF ok THEN "coinglass" ELSE "idle"
                   /\ cg_pc' = IF ok THEN "start" ELSE "idle"
              /\ target_chat_id' = "none"
              /\ coinglass_parsed_data' = Dict(<<>>)
              /\ UNCHANGED user_data

report_command == BeginCommand("report_command")
test_command == BeginCommand("test_command")

\* autopost_dashboard up to the call of fetch_coinglass_data (lines 278-286).
autopost_dashboard ==
    /\ Dispatch("none", <<>>, "autopost_dashboard")
    /\ sends' = <<>>
    /\ h_ret' = "none"
    /\ h_pc' = "coinglass"
    /\ cg_pc' = "start"
    /\ target_chat_id' = "none"
    /\ coinglass_parsed_data' = Dict(<<>>)
    /\ UNCHANGED user_data

\* A sentiment request that does not wait for the derivatives client.
FetchFearGreedEarly ==
    /\ h_pc \in {"coinglass", "feargreed"}
    /\ \E r \in FngResponses :
         /\ Cost(r) <= faults_left
         /\ faults_left' = faults_left - Cost(r)
         /\ fear_greed_data' = fetch_fear_greed_index(r)
         /\ answers' = <<r>>
    /\ requests' = Append(requests, Request("alternative", "fng", ""))
    /\ h_pc' = "coingecko"
    /\ UNCHANGED <<COINGLASS_API_KEY, concurrentVars,
                   pubVars, cgVars, sends, user_data, update, handler,
                   h_ret, target_chat_id, coinglass_parsed_data, coingecko_data,
                   post_to_publish>>

\* The call of fetch_fear_greed_index (lines 287, 365, 417, 528).
FetchFearGreed ==
    /\ \/ h_pc = "coinglass" /\ cg_pc = "done"
       \/ h_pc = "feargreed"
    /\ \E r \in FngResponses :
         /\ Cost(r) <= faults_left
         /\ faults_left' = faults_left - Cost(r)
         /\ fear_greed_data' = fetch_fear_greed_index(r)
         /\ answers' = <<r>>
    /\ requests' = Append(requests, Request("alternative", "fng", ""))
    /\ h_pc' = "coingecko"
    /\ UNCHANGED <<COINGLASS_API_KEY, concurrentVars,
                   pubVars, cgVars, sends, user_data, update, handler,
                   h_ret, target_chat_id, coinglass_parsed_data, coingecko_data,
                   post_to_publish>>

\* What fetch_coingecko_data returned, as the handler keeps it: the manual
\* path replaces nothing by the unavailable snapshot (lines 533-539).
SnapshotKept(ret) ==
    IF handler = "handle_admin_manual_coinglass_input" /\ ~Truthy(ret)
    THEN UnavailableSnapshot
    ELSE ret

\* The call of fetch_coingecko_data for the snapshot the report is built
\* from (lines 288, 366, 418, 533), up to the answer to its price request
\* (lines 157-159): None when the request raises.
FetchCoingecko ==
    /\ h_pc = "coingecko"
    /\ \E prices \in PricesResponses :
         /\ Cost(prices) <= faults_left
         /\ faults_left' = faults_left - Cost(prices)
         /\ answers' = <<prices>>
         /\ IF prices.kind = "error"
            THEN /\ coingecko_data' = SnapshotKept(None)
                 /\ h_pc' = "decide"
            ELSE /\ UNCHANGED coingecko_data
                 /\ h_pc' = "coingecko_global"
    /\ requests' = Append(requests, Request("coingecko", "price", ""))
    /\ UNCHANGED <<COINGLASS_API_KEY, concurrentVars,
                   pubVars, cgVars, sends, user_data, update, handler,
                   h_ret, target_chat_id, coinglass_parsed_data, fear_greed_data,
                   post_to_publish>>

\* The answer to its global request (lines 161-181).
FetchCoingeckoGlobal ==
    /\ h_pc = "coingecko_global"
    /\ \E global \in GlobalResponses :
         /\ Cost(global) <= faults_left
         /\ faults_left' = faults_left - Cost(global)
         /\ answers' = <<answers[1], global>>
         /\ coingecko_data' = SnapshotKept(fetch_coingecko_data(<<answers[1], global>>).ret)
    /\ requests' = Append(requests, Request("coingecko", "global", ""))
    /\ h_pc' = "decide"
    /\ UNCHANGED <<COINGLASS_API_KEY, concurrentVars,
                   pubVars, cgVars, sends, user_data, update, handler,
                   h_ret, target_chat_id, coinglass_parsed_data, fear_greed_data,
                   post_to_publish>>

\* A handler ends with one message to a chat.
EndWith(chat, text) ==
    /\ \E ok \in BOOLEAN :
         /\ sends' = Append(sends, Msg(chat, text, ok))
         /\ h_ret' = Outcome(ok)
    /\ h_pc' = "idle"

\* A handler ends without a message.
End(ret) ==
    /\ h_ret' = ret
    /\ h_pc' = "idle"
    /\ UNCHANGED sends

\* The handler calls publish_post_to_channel with the report.
Publish(post) ==
    /\ post_text' = post
    /\ pub_pc' = "start"
    /\ h_pc' = "publish"
    /\ UNCHANGED <<sends, h_ret>>

\* One awaited message inside a try block: the handler goes on at `next`
\* when it returns (it has ended when next is "idle") and at the reply of
\* its except branch when it raises.
SendInTry(chat, text, next) ==
    \E ok \in BOOLEAN :
      /\ sends' = Append(sends, Msg(chat, text, ok))
      /\ h_pc' = IF ok THEN next ELSE "error_reply"
      /\ h_ret' = IF ok /\ next = "idle" THEN "returned" ELSE h_ret

\* An autopost that announces its cancellation where it posts its reports.
autopost_dashboard_publish_warning_to_channel ==
    /\ handler = "autopost_dashboard" /\ h_pc = "decide"
    /\ IF KeyMissing
       THEN EndWith(CHANNEL_ID, ConfigWarningText(handler))
            /\ UNCHANGED <<pubVars, post_to_publish>>
       ELSE IF cg_ret = None
       THEN EndWith(CHANNEL_ID, ApiErrorText(handler))
            /\ UNCHANGED <<pubVars, post_to_publish>>
       ELSE LET post == generate_dashboard_post(cg_ret, fear_greed_data, coingecko_data) IN
            /\ post_to_publish' = post
            /\ IF post # <<>>
               THEN Publish(post) /\ UNCHANGED <<chunks, chunk_i, pub_ret, sleeps>>
               ELSE End("returned") /\ UNCHANGED pubVars
    /\ UNCHANGED <<COINGLASS_API_KEY, concurrentVars,
                   requests, faults_left, cgVars, user_data, update,
                   handler, target_chat_id, coinglass_parsed_data, fear_greed_data,
                   coingecko_data, answers>>

\* autopost_dashboard after its three fetches (lines 290-326).
autopost_dashboard_publish ==
    /\ handler = "autopost_dashboard" /\ h_pc = "decide"
    /\ IF KeyMissing
       THEN EndWith(ADMIN_ID, ConfigWarningText(handler))
            /\ UNCHANGED <<pubVars, post_to_publish>>
       ELSE IF cg_ret = None
       THEN EndWith(ADMIN_ID, ApiErrorText(handler))
            /\ UNCHANGED <<pubVars, post_to_publish>>
       ELSE LET post == generate_dashboard_post(cg_ret, fear_greed_data, coingecko_data) IN
            /\ post_to_publish' = post
            /\ IF post # <<>>
               THEN Publish(post) /\ UNCHANGED <<chunks, chunk_i, pub_ret, sleeps>>
               ELSE End("returned") /\ UNCHANGED pubVars
    /\ UNCHANGED <<COINGLASS_API_KEY, concurrentVars,
                   requests, faults_left, cgVars, user_data, update,
                   handler, target_chat_id, coinglass_parsed_data, fear_greed_data,
                   coingecko_data, answers>>

\* autopost_dashboard after publish_post_to_channel (lines 321-328).
autopost_dashboard_end ==
    /\ handler = "autopost_dashboard" /\ h_pc = "publish" /\ pub_pc = "done"
    /\ End(IF pub_ret = "raised" THEN "raised" ELSE "returned")
    /\ UNCHANGED <<COINGLASS_API_KEY, concurrentVars,
                   requests, faults_left, cgVars, pubVars, user_data,
                   update, handler, locals>>

\* /report after its three fetches (lines 420-449).
report_command_publish ==
    /\ handler = "report_command" /\ h_pc = "decide"
    /\ IF KeyMissing
       THEN EndWith(ADMIN_ID, ConfigWarningText(handler))
            /\ UNCHANGED <<pubVars, post_to_publish>>
       ELSE IF cg_ret = None
       THEN EndWith(ADMIN_ID, ApiErrorText(handler))
            /\ UNCHANGED <<pubVars, post_to_publish>>
       ELSE LET post == generate_dashboard_post(cg_ret, fear_greed_data, coingecko_data) IN
            /\ post_to_publish' = post
            /\ IF post # <<>>
               THEN Publish(post) /\ UNCHANGED <<chunks, chunk_i, pub_ret, sleeps>>
               ELSE EndWith(update.user, ReportNotPreparedText) /\ UNCHANGED pubVars
    /\ UNCHANGED <<COINGLASS_API_KEY, concurrentVars,
                   requests, faults_left, cgVars, user_data, update,
                   handler, target_chat_id, coinglass_parsed_data, fear_greed_data,
                   coingecko_data, answers>>

\* /report after publish_post_to_channel (lines 450-455).
report_command_end ==
    /\ handler = "report_command" /\ h_pc = "publish" /\ pub_pc = "done"
    /\ CASE pub_ret = "True" -> EndWith(update.user, ReportOkText)
         [] pub_ret = "False" -> EndWith(update.user, ReportFailedText)
         [] OTHER -> End("raised")
    /\ UNCHANGED <<COINGLASS_API_KEY, concurrentVars,
                   requests, faults_left, cgVars, pubVars, user_data,
                   update, handler, locals>>

\* /test after its three fetches (lines 368-395, 401-403), up to the answer
\* to the report it sends to the chat of the command.
test_command_send ==
    /\ handler = "test_command" /\ h_pc = "decide"
    /\ IF KeyMissing
       THEN EndWith(update.user, ConfigWarningText(handler)) /\ UNCHANGED post_to_publish
       ELSE IF cg_ret = None
       THEN EndWith(update.user, ApiErrorText(handler)) /\ UNCHANGED post_to_publish
       ELSE LET post == generate_dashboard_post(cg_ret, fear_greed_data, coingecko_data) IN
            /\ post_to_publish' = post
            /\ IF post # <<>>
               THEN SendInTry(update.user, post, "confirm")
               ELSE EndWith(update.user, TestNotPreparedText)
    /\ UNCHANGED <<COINGLASS_API_KEY, concurrentVars,
                   requests, faults_left, cgVars, pubVars, user_data,
                   update, handler, target_chat_id, coinglass_parsed_data,
                   fear_greed_data, coingecko_data, answers>>

\* The confirmation that the test report was sent (line 397).
test_command_confirm ==
    /\ handler = "test_command" /\ h_pc = "confirm"
    /\ SendInTry(update.user, TestOkText, "idle")
    /\ UNCHANGED <<COINGLASS_API_KEY, concurrentVars,
                   requests, faults_left, cgVars, pubVars, user_data,
                   update, handler, locals>>

\* The reply of the except branch of /test (lines 398-400): an exception
\* here leaves the handler.
test_command_error ==
    /\ handler = "test_command" /\ h_pc = "error_reply"
    /\ EndWith(update.user, TestErrorText)
    /\ UNCHANGED <<COINGLASS_API_KEY, concurrentVars,
                   requests, faults_left, cgVars, pubVars, user_data,
                   update, handler, locals>>

\* The manual override -----------------------------------------------------
\* A text of the administrator that is not a command (line 598), up to the
\* acknowledgement the handler awaits (lines 477-490): a pending flag is
\* taken and cleared, or the handler returns.
handle_admin_manual_coinglass_input ==
    \E text \in ManualTexts :
      LET flags == user_data[ADMIN_ID] IN
      /\ Dispatch(ADMIN_ID, text, "handle_admin_manual_coinglass_input")
      /\ cg_pc' = "idle"
      /\ IF flags.waiting_for_manual_coinglass_input_channel
         THEN /\ target_chat_id' = CHANNEL_ID
              /\ user_data' = [user_data EXCEPT
                     ![ADMIN_ID].waiting_for_manual_coinglass_input_channel = FALSE]
         ELSE IF flags.waiting_for_manual_coinglass_input_admin
         THEN /\ target_chat_id' = ADMIN_ID
              /\ user_data' = [user_data EXCEPT
                     ![ADMIN_ID].waiting_for_manual_coinglass_input_admin = FALSE]
         ELSE /\ target_chat_id' = "none"
              /\ UNCHANGED user_data
      /\ sends' = <<>>
      /\ coinglass_parsed_data' = Dict(<<>>)
      /\ IF target_chat_id' = "none"
         THEN h_ret' = "returned" /\ h_pc' = "idle"
         ELSE h_ret' = "none" /\ h_pc' = "ack"

\* The acknowledgement returns and the text is parsed (lines 490-513), or
\* it raises and the handler is left.
manual_ack ==
    /\ handler = "handle_admin_manual_coinglass_input" /\ h_pc = "ack"
    /\ \E ok \in BOOLEAN :
         /\ sends' = Append(sends, Msg(ADMIN_ID, GotDataText, ok))
         /\ h_ret' = IF ok THEN "none" ELSE "raised"
         /\ h_pc' = IF ok THEN "prices" ELSE "idle"
         /\ coinglass_parsed_data' = IF ok THEN ParseManualInput(update.text)
                                          ELSE Dict(<<>>)
    /\ UNCHANGED <<COINGLASS_API_KEY, concurrentVars, requests, faults_left, pubVars,
                   cgVars, user_data, update, handler, target_chat_id, fear_greed_data,
                   coingecko_data, post_to_publish, answers>>

\* The parsing of the operator's text alone (lines 491-513).
ParseInput ==
    /\ h_pc = "parse"
    /\ coinglass_parsed_data' = ParseManualInput(update.text)
    /\ h_pc' = "prices"
    /\ UNCHANGED <<COINGLASS_API_KEY, concurrentVars, requests, faults_left, pubVars, cgVars, sends,
                   user_data, update, handler, h_ret, target_chat_id, fear_greed_data,
                   coingecko_data, post_to_publish, answers>>

\* The prices for the manual data (lines 516-525), up to the answer to the
\* price request of fetch_coingecko_data: the unavailable prices when it
\* raises.
manual_prices ==
    /\ h_pc = "prices"
    /\ \E prices \in PricesResponses :
         /\ Cost(prices) <= faults_left
         /\ faults_left' = faults_left - Cost(prices)
         /\ answers' = <<prices>>
         /\ IF prices.kind = "error"
            THEN /\ coinglass_parsed_data' =
                       AddPrices(coinglass_parsed_data, UnavailablePrices, 1)
                 /\ h_pc' = "feargreed"
            ELSE /\ UNCHANGED coinglass_parsed_data
                 /\ h_pc' = "prices_global"
    /\ requests' = Append(requests, Request("coingecko", "price", ""))
    /\ UNCHANGED <<COINGLASS_API_KEY, concurrentVars,
                   pubVars, cgVars, sends, user_data, update, handler,
                   h_ret, target_chat_id, fear_greed_data, coingecko_data,
                   post_to_publish>>

\* The answer to the global request of that call, and the prices added to
\* the manual data (lines 161-181, 516-525).
manual_prices_global ==
    /\ h_pc = "prices_global"
    /\ \E global \in GlobalResponses :
         LET got == fetch_coingecko_data(<<answers[1], global>>) IN
         /\ Cost(global) <= faults_left
         /\ faults_left' = faults_left - Cost(global)
         /\ answers' = <<answers[1], global>>
         /\ coinglass_parsed_data' =
               AddPrices(coinglass_parsed_data,
                         IF Truthy(got.ret) THEN got.ret ELSE UnavailablePrices, 1)
    /\ requests' = Append(requests, Request("coingecko", "global", ""))
    /\ h_pc' = "feargreed"
    /\ UNCHANGED <<COINGLASS_API_KEY, concurrentVars,
                   pubVars, cgVars, sends, user_data, update, handler,
                   h_ret, target_chat_id, fear_greed_data, coingecko_data,
                   post_to_publish>>

\* The manual path after its fetches (lines 541-545, 552-557, 563-565), up
\* to the call of publish_post_to_channel or the answer to the report it
\* sends to the administrator.
manual_send ==
    /\ handler = "handle_admin_manual_coinglass_input" /\ h_pc = "decide"
    /\ LET post == generate_dashboard_post(coinglass_parsed_data, fear_greed_data,
                                           coingecko_data) IN
       /\ post_to_publish' = post
       /\ IF post = <<>>
          THEN EndWith(ADMIN_ID, ManualNotPreparedText) /\ UNCHANGED pubVars
          ELSE IF target_chat_id = CHANNEL_ID
          THEN Publish(post) /\ UNCHANGED <<chunks, chunk_i, pub_ret, sleeps>>
          ELSE SendInTry(ADMIN_ID, post, "confirm") /\ UNCHANGED pubVars
    /\ UNCHANGED <<COINGLASS_API_KEY, concurrentVars,
                   requests, faults_left, cgVars, user_data, update,
                   handler, target_chat_id, coinglass_parsed_data, fear_greed_data,
                   coingecko_data, answers>>

\* The manual path after publish_post_to_channel (lines 546-551, 560-562):
\* the reply that tells the outcome, or the reply of the except branch when
\* the publication raised.
manual_end ==
    /\ handler = "handle_admin_manual_coinglass_input"
    /\ h_pc = "publish" /\ pub_pc = "done"
    /\ CASE pub_ret = "True" -> SendInTry(ADMIN_ID, ManualOkText, "idle")
         [] pub_ret = "False" -> SendInTry(ADMIN_ID, ManualFailedText, "idle")
         [] OTHER -> EndWith(ADMIN_ID, ManualErrorText)
    /\ UNCHANGED <<COINGLASS_API_KEY, concurrentVars,
                   requests, faults_left, cgVars, pubVars, user_data,
                   update, handler, locals>>

\* The confirmation that the manual test report was sent (line 559).
manual_confirm ==
    /\ handler = "handle_admin_manual_coinglass_input" /\ h_pc = "confirm"
    /\ SendInTry(ADMIN_ID, ManualTestOkText, "idle")
    /\ UNCHANGED <<COINGLASS_API_KEY, concurrentVars,
                   requests, faults_left, cgVars, pubVars, user_data,
                   update, handler, locals>>

\* The reply of the except branch of the manual path (lines 560-562): an
\* exception here leaves the handler.
manual_error ==
    /\ handler = "handle_admin_manual_coinglass_input" /\ h_pc = "error_reply"
    /\ EndWith(ADMIN_ID, ManualErrorText)
    /\ UNCHANGED <<COINGLASS_API_KEY, concurrentVars,
                   requests, faults_left, cgVars, pubVars, user_data,
                   update, handler, locals>>

\* The formatter alone -------------------------------------------------------
\* The values a price or a change can have: a number, the sentinel, None, a
\* text, a whole quote.
QuoteValues == {Num(100), Num(2), NA, None, Str("abc"), NoQuote}

\* The metrics of one instrument the formatter is given: each pair of price
\* and change, and entries without these fields.
MetricsInputs ==
    {Unavailable(p, c) : p \in QuoteValues, c \in QuoteValues}
        \cup {Dict(<<>>), Dict(<<E("current_price", Num(100))>>),
              Dict(<<E("change_24h", Num(2)), E("volume_24h", Str("500M"))>>)}

\* The first argument of generate_dashboard_post: absent, empty, one
\* instrument, or two in either order.
CoinglassInputs ==
    {None, Dict(<<>>)}
        \cup {Dict(<<E("BTC", m)>>) : m \in MetricsInputs}
        \cup {Dict(<<E(pair[1], m), E(pair[2], Unavailable(Num(100), Num(2)))>>) :
                m \in MetricsInputs, pair \in {<<"BTC", "ETH">>, <<"XRP", "BTC">>}}

FearGreedInputs == {fetch_fear_greed_index(r) : r \in FngResponses} \cup {Dict(<<>>)}

SnapshotInputs ==
    {fetch_coingecko_data(in).ret : in \in GeckoInputs}
        \cup {Dict(<<>>), UnavailableSnapshot, Dict(<<E("btc_dominance", Str("abc"))>>)}

\* One call of generate_dashboard_post.
FormatPost ==
    /\ h_pc = "format"
    /\ post_to_publish' =
          generate_dashboard_post(coinglass_parsed_data, fear_greed_data, coingecko_data)
    /\ h_pc' = "formatted"
    /\ UNCHANGED <<COINGLASS_API_KEY, concurrentVars, requests, faults_left, pubVars, cgVars, sends,
                   user_data, update, handler, h_ret, target_chat_id,
                   coinglass_parsed_data, fear_greed_data, coingecko_data, answers>>

\* The operator's handlers side by side -------------------------------------
\* How many updates of the operator arrive in one run.
MaxJobs == 3

\* No handler runs beside the one being modelled.
ConcurrentIdle == jobs = <<>> /\ cycles = <<>>

\* A handler of an update of the operator: the command or "text", where it
\* stands (pc), the chat its report is for, the manual data, the sentiment
\* reading and the report it built, the answer to the price request it is
\* in the middle of, the index of the chunk its publication is at (from 1),
\* what its publication returned, and the positions in requests of the
\* requests it made.
Job(kind, pc, target) ==
    [kind |-> kind, pc |-> pc, target |-> target, parsed |-> Dict(<<>>), fng |-> None,
     post |-> <<>>, answer |-> NotRequested, i |-> 1, ret |-> "none", reqs |-> {}]

ManualCommands == {"report_admin_command", "report_admin_test_command"}
FlagOf(h) ==
    IF h = "report_admin_command" THEN "waiting_for_manual_coinglass_input_channel"
                                  ELSE "waiting_for_manual_coinglass_input_admin"

\* What the handlers leave alone.
manualUnchanged ==
    <<COINGLASS_API_KEY, cycles, post_text, chunks, chunk_i, pub_pc, pub_ret, cgVars,
      update, handler, h_pc, h_ret, locals>>

\* /report_admin or /report_admin_test of the operator arrives: its handler
\* runs up to the reply it awaits (lines 460-466, 567-573).
ManualCommandArrives ==
    /\ Len(jobs) < MaxJobs
    /\ \E h \in ManualCommands : jobs' = Append(jobs, Job(h, "reply", "none"))
    /\ UNCHANGED <<user_data, sends, requests, faults_left, sleeps, manualUnchanged>>

\* The reply returns and the flag is set (lines 466-474, 573-581), or the
\* reply raises and the handler is left.
ManualCommandReplied ==
    \E j \in 1..Len(jobs) :
      /\ jobs[j].kind \in ManualCommands /\ jobs[j].pc = "reply"
      /\ \E ok \in BOOLEAN :
           /\ sends' = Append(sends, Msg(ADMIN_ID, PromptText(jobs[j].kind), ok))
           /\ user_data' = IF ok THEN [user_data EXCEPT ![ADMIN_ID][FlagOf(jobs[j].kind)] = TRUE]
                                 ELSE user_data
           /\ jobs' = [jobs EXCEPT ![j].pc = IF ok THEN "done" ELSE "raised"]
      /\ UNCHANGED <<requests, faults_left, sleeps, manualUnchanged>>

\* The flag is left as it is when the text takes it.
ManualTextArrivesKeepingFlag ==
    /\ Len(jobs) < MaxJobs
    /\ LET flags == user_data[ADMIN_ID] IN
       IF flags.waiting_for_manual_coinglass_input_channel
       THEN jobs' = Append(jobs, Job("text", "reply", CHANNEL_ID))
       ELSE IF flags.waiting_for_manual_coinglass_input_admin
       THEN jobs' = Append(jobs, Job("text", "reply", ADMIN_ID))
       ELSE jobs' = Append(jobs, Job("text", "ignored", "none"))
    /\ UNCHANGED <<user_data, sends, requests, faults_left, sleeps, manualUnchanged>>

\* A text of the operator arrives: its handler runs up to its first await
\* (lines 477-490), taking a pending flag and clearing it, or returning.
ManualTextArrives ==
    /\ Len(jobs) < MaxJobs
    /\ LET flags == user_data[ADMIN_ID] IN
       IF flags.waiting_for_manual_coinglass_input_channel
       THEN /\ jobs' = Append(jobs, Job("text", "reply", CHANNEL_ID))
            /\ user_data' = [user_data EXCEPT
                   ![ADMIN_ID].waiting_for_manual_coinglass_input_channel = FALSE]
       ELSE IF flags.waiting_for_manual_coinglass_input_admin
       THEN /\ jobs' = Append(jobs, Job("text", "reply", ADMIN_ID))
            /\ user_data' = [user_data EXCEPT
                   ![ADMIN_ID].waiting_for_manual_coinglass_input_admin = FALSE]
       ELSE /\ jobs' = Append(jobs, Job("text", "ignored", "none"))
            /\ UNCHANGED user_data
    /\ UNCHANGED <<sends, requests, faults_left, sleeps, manualUnchanged>>

\* The acknowledgement returns and the text, N/A, is parsed (lines 490-513),
\* or it raises and the handler is left.
ManualTextReplied ==
    \E j \in 1..Len(jobs) :
      /\ jobs[j].kind = "text" /\ jobs[j].pc = "reply"
      /\ \E ok \in BOOLEAN :
           /\ sends' = Append(sends, Msg(ADMIN_ID, GotDataText, ok))
           /\ jobs' = IF ok THEN [jobs EXCEPT ![j].pc = "prices",
                                              ![j].parsed = ParseManualInput(<<Word("N/A")>>)]
                            ELSE [jobs EXCEPT ![j].pc = "raised"]
      /\ UNCHANGED <<user_data, requests, faults_left, sleeps, manualUnchanged>>

\* Where a handler of a text awaits the answer to a request, the request
\* and the answers it can get: complete, or an error.
FetchingAt == {"prices", "prices_global", "feargreed", "coingecko", "coingecko_global"}
\* Where it awaits a message of its delivery.
DeliveringAt == {"send", "notify", "confirm", "error_reply"}
ManualRequest(pc) ==
    CASE pc \in {"prices", "coingecko"} -> Request("coingecko", "price", "")
      [] pc \in {"prices_global", "coingecko_global"} -> Request("coingecko", "global", "")
      [] OTHER -> Request("alternative", "fng", "")
ManualAnswers(pc) ==
    CASE pc \in {"prices", "coingecko"} -> {PricesFull, ErrorResponse}
      [] pc \in {"prices_global", "coingecko_global"} -> {GlobalFull, ErrorResponse}
      [] OTHER -> {FngFull, ErrorResponse}

\* The handler with the report built from the snapshot (line 541).
WithPost(job, snapshot) ==
    [job EXCEPT !.post = generate_dashboard_post(job.parsed, job.fng, snapshot),
                !.pc = "send"]

\* The handler after the answer r to the request it awaits (lines 516-541).
Fetched(job, r) ==
    LET got == fetch_coingecko_data(<<job.answer, r>>).ret IN
    CASE job.pc = "prices" ->
           IF r.kind = "error"
           THEN [job EXCEPT !.parsed = AddPrices(job.parsed, UnavailablePrices, 1),
                            !.pc = "feargreed"]
           ELSE [job EXCEPT !.answer = r, !.pc = "prices_global"]
      [] job.pc = "prices_global" ->
           [job EXCEPT !.parsed = AddPrices(job.parsed,
                                            IF Truthy(got) THEN got ELSE UnavailablePrices, 1),
                       !.pc = "feargreed"]
      [] job.pc = "feargreed" ->
           [job EXCEPT !.fng = fetch_fear_greed_index(r), !.pc = "coingecko"]
      [] job.pc = "coingecko" ->
           IF r.kind = "error" THEN WithPost(job, UnavailableSnapshot)
           ELSE [job EXCEPT !.answer = r, !.pc = "coingecko_global"]
      [] OTHER -> WithPost(job, IF Truthy(got) THEN got ELSE UnavailableSnapshot)

\* One request of the three fetches of a handler of a text is answered
\* (lines 516-541).
ManualTextFetched ==
    \E j \in 1..Len(jobs) :
      /\ jobs[j].kind = "text" /\ jobs[j].pc \in FetchingAt
      /\ \E r \in ManualAnswers(jobs[j].pc) :
           /\ Cost(r) <= faults_left
           /\ faults_left' = faults_left - Cost(r)
           /\ jobs' = [jobs EXCEPT ![j] =
                         [Fetched(jobs[j], r) EXCEPT !.reqs = @ \cup {Len(requests) + 1}]]
      /\ requests' = Append(requests, ManualRequest(jobs[j].pc))
      /\ UNCHANGED <<user_data, sends, sleeps, manualUnchanged>>

\* The report of a handler of a text goes out (lines 543-557, 563-565): one
\* chunk to the channel (lines 263-276), or the report to the operator.
ManualTextSent ==
    \E j \in 1..Len(jobs) :
      LET job == jobs[j]
          chunks_ == MakeChunks(job.post)
      IN  /\ job.kind = "text" /\ job.pc = "send"
          /\ \E ok \in BOOLEAN :
               IF job.post = <<>>
               THEN /\ sends' = Append(sends, Msg(ADMIN_ID, ManualNotPreparedText, ok))
                    /\ jobs' = [jobs EXCEPT ![j].pc = IF ok THEN "done" ELSE "raised"]
                    /\ UNCHANGED sleeps
               ELSE IF job.target = ADMIN_ID
               THEN /\ sends' = Append(sends, Msg(ADMIN_ID, job.post, ok))
                    /\ jobs' = [jobs EXCEPT ![j].pc = IF ok THEN "confirm" ELSE "error_reply"]
                    /\ UNCHANGED sleeps
               ELSE IF chunks_ = <<>>
               THEN /\ sends' = Append(sends, Msg(ADMIN_ID, ManualFailedText, ok))
                    /\ jobs' = [jobs EXCEPT ![j].pc = IF ok THEN "done" ELSE "error_reply",
                                            ![j].ret = "False"]
                    /\ UNCHANGED sleeps
               ELSE /\ sends' = Append(sends, Msg(CHANNEL_ID, Strip(chunks_[job.i]), ok))
                    /\ IF ~ok
                       THEN jobs' = [jobs EXCEPT ![j].pc = "notify"] /\ UNCHANGED sleeps
                       ELSE IF job.i < Len(chunks_)
                       THEN jobs' = [jobs EXCEPT ![j].i = job.i + 1] /\ sleeps' = sleeps + 1
                       ELSE /\ jobs' = [jobs EXCEPT ![j].pc = "confirm", ![j].ret = "True"]
                            /\ UNCHANGED sleeps
          /\ UNCHANGED <<user_data, requests, faults_left, manualUnchanged>>

\* The notification of the failed publication (lines 274-275): the
\* publication returns False, or raises when the notification raises.
ManualTextNotified ==
    \E j \in 1..Len(jobs) :
      /\ jobs[j].kind = "text" /\ jobs[j].pc = "notify"
      /\ \E notified \in BOOLEAN :
           /\ sends' = Append(sends, Msg(ADMIN_ID, DeliveryFailedText, notified))
           /\ jobs' = IF notified
                      THEN [jobs EXCEPT ![j].pc = "confirm", ![j].ret = "False"]
                      ELSE [jobs EXCEPT ![j].pc = "error_reply", ![j].ret = "raised"]
      /\ UNCHANGED <<user_data, requests, faults_left, sleeps, manualUnchanged>>

\* The reply that tells the operator the outcome (lines 548, 551, 559).
ManualTextConfirmed ==
    \E j \in 1..Len(jobs) :
      LET job == jobs[j]
          text == IF job.target = ADMIN_ID THEN ManualTestOkText
                  ELSE IF job.ret = "True" THEN ManualOkText ELSE ManualFailedText
      IN  /\ job.kind = "text" /\ job.pc = "confirm"
          /\ \E ok \in BOOLEAN :
               /\ sends' = Append(sends, Msg(ADMIN_ID, text, ok))
               /\ jobs' = [jobs EXCEPT ![j].pc = IF ok THEN "done" ELSE "error_reply"]
          /\ UNCHANGED <<user_data, requests, faults_left, sleeps, manualUnchanged>>

\* The reply of the except branch (lines 560-562): an exception here leaves
\* the handler.
ManualTextFailed ==
    \E j \in 1..Len(jobs) :
      /\ jobs[j].kind = "text" /\ jobs[j].pc = "error_reply"
      /\ \E ok \in BOOLEAN :
           /\ sends' = Append(sends, Msg(ADMIN_ID, ManualErrorText, ok))
           /\ jobs' = [jobs EXCEPT ![j].pc = IF ok THEN "done" ELSE "raised"]
      /\ UNCHANGED <<user_data, requests, faults_left, sleeps, manualUnchanged>>

\* Report cycles side by side ----------------------------------------------
\* How many cycles publish in one run.
MaxCycles == 2
\* The length of a figure an upstream reports as a long string.
WideValueLen == 3000
WideValue == [k |-> "str", n |-> 0, s |-> "W", d |-> <<Tok("W", WideValueLen)>>]

\* The callers of publish_post_to_channel that a schedule or a command starts.
CycleKinds == {"autopost_dashboard", "report_command"}

\* The metrics of the instruments with every figure present; the volumes are
\* the sample figures or long strings.
CycleMetrics(wide) ==
    Dict([i \in 1..Len(symbols) |->
            LET sym == symbols[i] IN
            E(sym, Dict(<<E("current_price", Num(Sample[sym].price)),
                          E("change_24h", Num(Sample[sym].change)),
                          E("volume_24h", IF wide THEN WideValue ELSE Num(Sample[sym].TV)),
                          E("open_interest", Num(Sample[sym].OI)),
                          E("long_liquidations_24h", Num(Sample[sym].LL)),
                          E("short_liquidations_24h", Num(Sample[sym].SL)),
                          E("total_liquidations_24h", Num(Sample[sym].TL))>>))])

\* The reports the callers hand to publish_post_to_channel: one that fits
\* one message and one that takes several.
CyclePosts ==
    { generate_dashboard_post(CycleMetrics(wide), fetch_fear_greed_index(FngFull),
                              fetch_coingecko_data(<<PricesFull, GlobalFull>>).ret)
        : wide \in BOOLEAN }

\* A cycle: its caller, the report the caller built, where it stands (pc:
\* "start", "send", "notify", "end" or "done"), and of its call of
\* publish_post_to_channel the chunks, the index of the chunk the loop is at
\* (from 1), what it returned, and the positions in sends of the messages it
\* addressed to the channel.
Cycle(kind, post) ==
    [kind |-> kind, post |-> post, pc |-> "start", chunks |-> <<>>, i |-> 1,
     ret |-> "none", sent |-> <<>>]

cyclesUnchanged ==
    <<COINGLASS_API_KEY, jobs, requests, faults_left, post_text, chunks, chunk_i, pub_pc,
      pub_ret, cgVars, botVars>>

\* A caller has built its report (lines 316, 447) and is about to publish it.
CycleStarts ==
    /\ Len(cycles) < MaxCycles
    /\ \E kind \in CycleKinds, post \in CyclePosts :
         cycles' = Append(cycles, Cycle(kind, post))
    /\ UNCHANGED <<sends, sleeps, cyclesUnchanged>>

\* publish_post_to_channel of a cycle up to its send loop (lines 243-261):
\* the chunking and the empty-post return.
CyclePublishStart ==
    \E c \in 1..Len(cycles) :
      LET cy == cycles[c]
          chunks_ == MakeChunks(cy.post)
      IN  /\ cy.pc = "start"
          /\ cycles' = [cycles EXCEPT ![c].chunks = chunks_,
                                      ![c].pc = IF chunks_ = <<>> THEN "end" ELSE "send",
                                      ![c].ret = IF chunks_ = <<>> THEN "False" ELSE "none"]
          /\ UNCHANGED <<sends, sleeps, cyclesUnchanged>>

\* One pass of the send loop of a cycle in which send_message returns
\* (lines 263-271, 276).
CycleSendOk ==
    \E c \in 1..Len(cycles) :
      LET cy == cycles[c] IN
      /\ cy.pc = "send"
      /\ sends' = Append(sends, Msg(CHANNEL_ID, Strip(cy.chunks[cy.i]), TRUE))
      /\ IF cy.i < Len(cy.chunks)
         THEN /\ sleeps' = sleeps + 1
              /\ cycles' = [cycles EXCEPT ![c].i = cy.i + 1,
                                          ![c].sent = Append(cy.sent, Len(sends) + 1)]
         ELSE /\ UNCHANGED sleeps
              /\ cycles' = [cycles EXCEPT ![c].pc = "end", ![c].ret = "True",
                                          ![c].sent = Append(cy.sent, Len(sends) + 1)]
      /\ UNCHANGED cyclesUnchanged

\* A failed send that ends every cycle.
CycleSendFailsForAll ==
    \E c \in 1..Len(cycles) :
      LET cy == cycles[c] IN
      /\ cy.pc = "send"
      /\ sends' = Append(sends, Msg(CHANNEL_ID, Strip(cy.chunks[cy.i]), FALSE))
      /\ cycles' = [d \in 1..Len(cycles) |->
                      IF d = c
                      THEN [cy EXCEPT !.pc = "notify",
                                      !.sent = Append(cy.sent, Len(sends) + 1)]
                      ELSE IF cycles[d].pc = "send"
                      THEN [cycles[d] EXCEPT !.pc = "end", !.ret = "False"]
                      ELSE cycles[d]]
      /\ UNCHANGED <<sleeps, cyclesUnchanged>>

\* One pass of the send loop of a cycle in which send_message raises
\* (lines 264-273): the except branch awaits the notification of the
\* administrator.
CycleSendFails ==
    \E c \in 1..Len(cycles) :
      LET cy == cycles[c] IN
      /\ cy.pc = "send"
      /\ sends' = Append(sends, Msg(CHANNEL_ID, Strip(cy.chunks[cy.i]), FALSE))
      /\ cycles' = [cycles EXCEPT ![c].pc = "notify",
                                  ![c].sent = Append(cy.sent, Len(sends) + 1)]
      /\ UNCHANGED <<sleeps, cyclesUnchanged>>

\* The notification of a cycle (lines 274-275): the cycle returns False, or
\* the notification raises too.
CycleNotifies ==
    \E c \in 1..Len(cycles) :
      /\ cycles[c].pc = "notify"
      /\ \E notified \in BOOLEAN :
           /\ sends' = Append(sends, Msg(ADMIN_ID, DeliveryFailedText, notified))
           /\ cycles' = [cycles EXCEPT ![c].pc = "end",
                                       ![c].ret = IF notified THEN "False" ELSE "raised"]
      /\ UNCHANGED <<sleeps, cyclesUnchanged>>

\* The caller after publish_post_to_channel: autopost_dashboard logs
\* (lines 319-324), /report confirms to the operator (lines 450-455); an
\* exception leaves the caller.
CycleEnds ==
    \E c \in 1..Len(cycles) :
      LET cy == cycles[c] IN
      /\ cy.pc = "end"
      /\ IF cy.kind = "report_command" /\ cy.ret # "raised"
         THEN \E ok \in BOOLEAN :
                sends' = Append(sends, Msg(ADMIN_ID,
                                           IF cy.ret = "True" THEN ReportOkText
                                                              ELSE ReportFailedText, ok))
         ELSE UNCHANGED sends
      /\ cycles' = [cycles EXCEPT ![c].pc = "done"]
      /\ UNCHANGED <<sleeps, cyclesUnchanged>>

\* ----------------------------------------------------------- specifications
RECURSIVE TextsOfLen(_)
TextsOfLen(n) ==
    IF n = 0 THEN {<<>>}
    ELSE {Append(t, u) : t \in TextsOfLen(n - 1), u \in Alphabet}

Texts == UNION {TextsOfLen(n) : n \in 0..MaxUnits}

CoinglassIdle ==
    /\ cg_pc = "idle"
    /\ cg_sym = 1
    /\ coinglass_data = Dict(<<>>)
    /\ coingecko_prices = None
    /\ cg_answers = NoAnswers
    /\ cg_ret = None

PublishIdle ==
    /\ post_text = <<>>
    /\ chunks = <<>>
    /\ chunk_i = 1
    /\ pub_pc = "idle"
    /\ pub_ret = "none"
    /\ sleeps = 0

LocalsIdle ==
    /\ target_chat_id = "none"
    /\ coinglass_parsed_data = Dict(<<>>)
    /\ fear_greed_data = None
    /\ coingecko_data = None
    /\ post_to_publish = <<>>
    /\ answers = <<>>

BotIdle ==
    /\ user_data = [u \in Users |-> NoFlags]
    /\ update = NoUpdate
    /\ handler = "none"
    /\ h_pc = "idle"
    /\ h_ret = "none"
    /\ LocalsIdle

\* The delivery alone, started with any text.
InitPublish ==
    /\ ConcurrentIdle
    /\ post_text \in Texts
    /\ chunks = <<>>
    /\ chunk_i = 1
    /\ pub_pc = "start"
    /\ pub_ret = "none"
    /\ sends = <<>>
    /\ sleeps = 0
    /\ COINGLASS_API_KEY = "key"
    /\ requests = <<>>
    /\ faults_left = 0
    /\ CoinglassIdle
    /\ BotIdle

NextPublish == PublishStart \/ SendChunkOk \/ SendChunkFail \/ NotifyAdmin

SpecPublish == InitPublish /\ [][NextPublish]_vars

\* The derivatives client alone, with any credential and any answers.
InitFetch ==
    /\ COINGLASS_API_KEY \in {"None", "", "key"}
    /\ ConcurrentIdle
    /\ requests = <<>>
    /\ sends = <<>>
    /\ faults_left = MaxFaultsFetch
    /\ cg_pc = "start"
    /\ cg_sym = 1
    /\ coinglass_data = Dict(<<>>)
    /\ coingecko_prices = None
    /\ cg_answers = NoAnswers
    /\ cg_ret = None
    /\ PublishIdle
    /\ BotIdle

NextFetch ==
    \/ FetchCoinglassStart
    \/ FetchCoinglassGlobal
    \/ CoinglassOverview
    \/ CoinglassLiquidation

SpecFetch == InitFetch /\ [][NextFetch]_vars

\* The manual-override parser alone, on any text of the operator, followed
\* by the prices step.
InitParse ==
    /\ COINGLASS_API_KEY \in {"None", "key"}
    /\ ConcurrentIdle
    /\ requests = <<>>
    /\ sends = <<>>
    /\ faults_left = MaxFaultsBot
    /\ CoinglassIdle
    /\ PublishIdle
    /\ user_data = [u \in Users |-> NoFlags]
    /\ update \in {[user |-> ADMIN_ID, text |-> t] : t \in OperatorTexts}
    /\ handler = "handle_admin_manual_coinglass_input"
    /\ h_pc = "parse"
    /\ h_ret = "none"
    /\ target_chat_id = ADMIN_ID
    /\ coinglass_parsed_data = Dict(<<>>)
    /\ fear_greed_data = None
    /\ coingecko_data = None
    /\ post_to_publish = <<>>
    /\ answers = <<>>

NextParse == ParseInput \/ manual_prices \/ manual_prices_global

SpecParse == InitParse /\ [][NextParse]_vars

\* The formatter alone, on any inputs.
InitFormat ==
    /\ COINGLASS_API_KEY = "key"
    /\ ConcurrentIdle
    /\ requests = <<>>
    /\ sends = <<>>
    /\ faults_left = 0
    /\ CoinglassIdle
    /\ PublishIdle
    /\ user_data = [u \in Users |-> NoFlags]
    /\ update = NoUpdate
    /\ handler = "none"
    /\ h_pc = "format"
    /\ h_ret = "none"
    /\ target_chat_id = "none"
    /\ coinglass_parsed_data \in CoinglassInputs
    /\ fear_greed_data \in FearGreedInputs
    /\ coingecko_data \in SnapshotInputs
    /\ post_to_publish = <<>>
    /\ answers = <<>>

NextFormat == FormatPost

SpecFormat == InitFormat /\ [][NextFormat]_vars

\* The operator's commands and texts, their handlers interleaved at each
\* await.
InitManual ==
    /\ COINGLASS_API_KEY = "key"
    /\ jobs = <<>>
    /\ cycles = <<>>
    /\ requests = <<>>
    /\ sends = <<>>
    /\ faults_left = MaxFaultsBot
    /\ CoinglassIdle
    /\ PublishIdle
    /\ BotIdle

NextManual ==
    \/ ManualCommandArrives
    \/ ManualCommandReplied
    \/ ManualTextArrives
    \/ ManualTextReplied
    \/ ManualTextFetched
    \/ ManualTextSent
    \/ ManualTextNotified
    \/ ManualTextConfirmed
    \/ ManualTextFailed

SpecManual == InitManual /\ [][NextManual]_vars

\* Report cycles whose deliveries interleave at each await.
InitCycles ==
    /\ COINGLASS_API_KEY = "key"
    /\ ConcurrentIdle
    /\ requests = <<>>
    /\ sends = <<>>
    /\ faults_left = 0
    /\ CoinglassIdle
    /\ PublishIdle
    /\ BotIdle

NextCycles ==
    \/ CycleStarts
    \/ CyclePublishStart
    \/ CycleSendOk
    \/ CycleSendFails
    \/ CycleNotifies
    \/ CycleEnds

SpecCycles == InitCycles /\ [][NextCycles]_vars

\* The bot: updates are handled one at a time, with any credential.
InitBot ==
    /\ COINGLASS_API_KEY \in {"None", "", "key"}
    /\ ConcurrentIdle
    /\ requests = <<>>
    /\ sends = <<>>
    /\ faults_left = MaxFaultsBot
    /\ CoinglassIdle
    /\ PublishIdle
    /\ BotIdle

NextBot ==
    \/ start
    \/ handle_non_admin_messages
    \/ report_admin_command
    \/ report_admin_test_command
    \/ report_command
    \/ test_command
    \/ autopost_dashboard
    \/ FetchCoinglassStart
    \/ FetchCoinglassGlobal
    \/ CoinglassOverview
    \/ CoinglassLiquidation
    \/ FetchFearGreed
    \/ FetchCoingecko
    \/ FetchCoingeckoGlobal
    \/ autopost_dashboard_publish
    \/ autopost_dashboard_end
    \/ report_command_publish
    \/ report_command_end
    \/ test_command_send
    \/ test_command_confirm
    \/ test_command_error
    \/ handle_admin_manual_coinglass_input
    \/ manual_ack
    \/ manual_prices
    \/ manual_prices_global
    \/ manual_send
    \/ manual_end
    \/ manual_confirm
    \/ manual_error
    \/ PublishStart
    \/ SendChunkOk
    \/ SendChunkFail
    \/ NotifyAdmin

SpecBot == InitBot /\ [][NextBot]_vars

\* ------------------------------------------------------------------ claims
Segments == Split(post_text)
ChannelCalls == Calls(sends, CHANNEL_ID)
AdminCalls == Calls(sends, ADMIN_ID)
Chunked == pub_pc \notin {"idle", "start"}

\* C1: when every double-newline-separated segment of the report text is at
\* most 4000 characters long, every text handed to send_message for the
\* channel is at most 4000 characters long.
C1_SentChunksWithinLimit ==
    (\A k \in 1..Len(Segments) : TextLen(Segments[k]) <= max_length)
        => \A k \in 1..Len(ChannelCalls) : TextLen(ChannelCalls[k].text) <= max_length

\* C1 witness: a text of segments within the limit, one of them of exactly
\* 4000 characters, whose chunk (4002 characters with its separator) has
\* been sent as a text of 4000 characters.
C1_Witness ==
    /\ \A k \in 1..Len(Segments) : TextLen(Segments[k]) <= max_length
    /\ \E k \in 1..Len(ChannelCalls) :
         /\ TextLen(ChannelCalls[k].text) = max_length
         /\ TextLen(chunks[k]) > max_length

\* chunks_ is pieces cut into consecutive groups, each chunk the
\* concatenation of its group.
RECURSIVE IsGrouping(_, _)
IsGrouping(chunks_, pieces) ==
    IF chunks_ = <<>> THEN pieces = <<>>
    ELSE \E k \in 1..Len(pieces) :
           /\ Head(chunks_) = Concat(SubSeq(pieces, 1, k))
           /\ IsGrouping(Tail(chunks_), SubSeq(pieces, k + 1, Len(pieces)))

\* Each segment with the separator that the chunking puts after it.
Pieces == [k \in 1..Len(Segments) |-> Segments[k] \o <<NL, NL>>]

\* C2: for any text, the list of chunks is the list of segments cut into
\* consecutive groups: every segment lies whole in exactly one chunk, in the
\* original order, none lost or duplicated, a chunk ending only after a
\* segment's separator (also for a segment longer than 4000 characters); and
\* the chunks are sent in that order, each as its text with the surrounding
\* whitespace stripped.
C2_SegmentsIntactInOrder ==
    Chunked =>
        /\ IsGrouping(chunks, Pieces)
        /\ Len(ChannelCalls) <= Len(chunks)
        /\ \A k \in 1..Len(ChannelCalls) : ChannelCalls[k].text = Strip(chunks[k])

\* C2 witness: all chunks of a text were sent; there are at least two, one
\* holding two segments, and one segment is longer than 4000 characters.
C2_Witness ==
    /\ pub_ret = "True"
    /\ Len(chunks) >= 2
    /\ Len(Segments) > Len(chunks)
    /\ \E k \in 1..Len(Segments) : TextLen(Segments[k]) > max_length

\* C3: the channel is sent the chunks in order from the first; a send that
\* failed is the last send to the channel of the delivery (no later chunk
\* is sent, the failed one is not sent again), so what the channel received
\* is a prefix of the chunk sequence.
C3_FailureStopsDelivery ==
    /\ Len(ChannelCalls) <= Len(chunks)
    /\ \A k \in 1..Len(ChannelCalls) :
         /\ ChannelCalls[k].text = Strip(chunks[k])
         /\ ~ChannelCalls[k].ok => k = Len(ChannelCalls)
    /\ LET got == Received(sends, CHANNEL_ID) IN
         /\ Len(got) <= Len(chunks)
         /\ \A k \in 1..Len(got) : got[k] = Strip(chunks[k])

\* C3 witness: the delivery ended on the failed send of a chunk that is
\* neither the first nor the last.
C3_Witness ==
    /\ pub_pc = "done"
    /\ Len(ChannelCalls) > 1
    /\ Len(ChannelCalls) < Len(chunks)
    /\ ~ChannelCalls[Len(ChannelCalls)].ok

\* C4 (as claimed): when a chunk send to the channel has raised, the
\* delivery ends returning False, never raising, and the administrator has
\* received the delivery-failure notification, whatever the outcome of the
\* notification send.
C4_FailureReturnsFalseAndNotifies ==
    (pub_pc = "done" /\ \E k \in 1..Len(ChannelCalls) : ~ChannelCalls[k].ok)
        => /\ pub_ret = "False"
           /\ \E k \in 1..Len(AdminCalls) : AdminCalls[k].text = DeliveryFailedText

\* C4, the part the code keeps: if the notification send returns, the
\* delivery returns False having notified the administrator.
C4_ReturnedFalseHasNotified ==
    (pub_pc = "done" /\ \E k \in 1..Len(ChannelCalls) : ~ChannelCalls[k].ok)
        => \/ pub_ret = "raised"
           \/ /\ pub_ret = "False"
              /\ \E k \in 1..Len(AdminCalls) :
                   AdminCalls[k].text = DeliveryFailedText /\ AdminCalls[k].ok

\* C5 (as claimed): given the empty text, publish_post_to_channel makes no
\* send_message call and returns False.
C5_EmptyDocumentIsNoOp ==
    post_text = <<>> => /\ sends = <<>>
                        /\ pub_pc = "done" => pub_ret = "False"

RECURSIVE RequestsTo(_, _)
RequestsTo(log, api) ==
    IF log = <<>> THEN <<>>
    ELSE IF Head(log).api = api THEN <<Head(log)>> \o RequestsTo(Tail(log), api)
         ELSE RequestsTo(Tail(log), api)

\* A chat has received the text.
HasReceived(chat, text) ==
    \E i \in 1..Len(sends) :
        sends[i].chat_id = chat /\ sends[i].ok /\ sends[i].text = text

\* An automated report was triggered: the scheduled job, or /report or /test
\* from the administrator.
Triggered ==
    \/ handler = "autopost_dashboard"
    \/ handler \in {"report_command", "test_command"} /\ update.user = ADMIN_ID

Ended == h_pc = "idle" /\ h_ret # "none"

\* C6: once the text that follows /report_admin and/or /report_admin_test has
\* been taken by the manual-input handler, no manual-input flag is pending for
\* the administrator, also when both commands were issued before it.
C6_NextMessageClearsFlags ==
    handler = "handle_admin_manual_coinglass_input" => user_data[ADMIN_ID] = NoFlags

\* C7: when the credential is absent or the empty string, an automated
\* trigger makes no request to the derivatives API and posts nothing to the
\* channel, and the handler that returns has delivered the configuration
\* warning to the administrator; it ends otherwise only because a message
\* to the administrator could not be sent.
C7_MissingCredentialWarnsWithoutPosting ==
    (Triggered /\ COINGLASS_API_KEY \in {"None", ""}) =>
        /\ RequestsTo(requests, "coinglass") = <<>>
        /\ ChannelCalls = <<>>
        /\ post_to_publish = <<>>
        /\ (Ended /\ h_ret = "returned") =>
               HasReceived(ADMIN_ID, ConfigWarningText(handler))
        /\ (Ended /\ h_ret = "raised") =>
               (sends # <<>> /\ ~sends[Len(sends)].ok
                /\ sends[Len(sends)].chat_id = ADMIN_ID)

C7_Witness ==
    /\ handler = "report_command" /\ update.user = ADMIN_ID
    /\ COINGLASS_API_KEY = ""
    /\ Ended /\ h_ret = "returned"
    /\ HasReceived(ADMIN_ID, ConfigWarningText("report_command"))
    /\ RequestsTo(requests, "coingecko") # <<>>

\* A request to the derivatives API raised.
UpstreamFailed ==
    \E i \in 1..Len(symbols) :
        \/ cg_answers[symbols[i]].overview.kind = "error"
        \/ cg_answers[symbols[i]].liquidation.kind = "error"

\* C8: when the credential is present and a request to the derivatives API
\* failed, fetch_coinglass_data returns None and the handler that returns has
\* told the administrator of the API error, with no report generated or
\* posted.
C8_UpstreamFailureIsReported ==
    (Triggered /\ COINGLASS_API_KEY = "key" /\ UpstreamFailed /\ Ended
     /\ h_ret = "returned") =>
        /\ cg_ret = None
        /\ HasReceived(ADMIN_ID, ApiErrorText(handler))
        /\ post_to_publish = <<>>
        /\ ChannelCalls = <<>>


\* The instruments fetch_coinglass_data is through with.
Processed(sym) ==
    \/ cg_pc = "done"
    \/ \E i \in 1..Len(symbols) : symbols[i] = sym /\ i < cg_sym

OverviewSucceeded(sym) ==
    LET r == cg_answers[sym].overview IN
    /\ r.kind = "body"
    /\ Truthy(Get(r.body, "success", None))
    /\ Truthy(Get(r.body, "data", None))

LiquidationSucceeded(sym) == cg_answers[sym].liquidation = LiquidationFull(sym)

\* The liquidation request raised, or returned a body that reports no
\* success or is not shaped as a list of rows.
LiquidationFailed(sym) ==
    cg_answers[sym].liquidation \in {ErrorResponse, NoSuccess, LiquidationNotAList(sym)}

LiquidationFieldsUnavailable(metrics) ==
    /\ Get(metrics, "long_liquidations_24h", None) = NA
    /\ Get(metrics, "short_liquidations_24h", None) = NA
    /\ Get(metrics, "total_liquidations_24h", None) = NA

OverviewFieldsKept(sym, metrics) ==
    LET data == Get(cg_answers[sym].overview.body, "data", None) IN
    /\ Get(metrics, "volume_24h", None) = Get(data, "totalVolume", NA)
    /\ Get(metrics, "open_interest", None) = Get(data, "openInterest", NA)

\* C9 (as claimed): for each instrument whose overview request succeeded and
\* whose liquidation request failed (it raised, or its body reports no
\* success or is malformed), the metrics have the three liquidation fields
\* unavailable and keep the volume and open interest the overview returned.
C9_LiquidationFailureKeepsOverview ==
    \A i \in 1..Len(symbols) :
        LET sym == symbols[i] IN
        (Processed(sym) /\ OverviewSucceeded(sym) /\ LiquidationFailed(sym))
            => /\ LiquidationFieldsUnavailable(Get(coinglass_data, sym, None))
               /\ OverviewFieldsKept(sym, Get(coinglass_data, sym, None))

\* C9, the case the code keeps: a liquidation body that reports no success.
C9_NoSuccessBodyKeepsOverview ==
    \A i \in 1..Len(symbols) :
        LET sym == symbols[i] IN
        (Processed(sym) /\ OverviewSucceeded(sym)
         /\ cg_answers[sym].liquidation = NoSuccess)
            => /\ LiquidationFieldsUnavailable(Get(coinglass_data, sym, None))
               /\ OverviewFieldsKept(sym, Get(coinglass_data, sym, None))

\* The requests the derivatives API is sent when no instrument's failure
\* touches another's: for each instrument in turn its overview request and,
\* unless that one raised, its liquidation request.
RECURSIVE ExpectedCoinglassRequests(_)
ExpectedCoinglassRequests(i) ==
    IF i > Len(symbols) THEN <<>>
    ELSE <<Request("coinglass", "openInterest", symbols[i])>>
         \o (IF cg_answers[symbols[i]].overview.kind = "error" THEN <<>>
             ELSE <<Request("coinglass", "liquidation", symbols[i])>>)
         \o ExpectedCoinglassRequests(i + 1)


\* C10: with the credential present, whatever fails for an instrument,
\* fetch_coinglass_data still sends every other instrument its requests (the
\* liquidation request of an instrument is skipped only when its own overview
\* request raised), returns a mapping with an entry for each of BTC, ETH, XRP
\* in that order, and every instrument whose two requests succeeded has its
\* volume, open interest and liquidations from its own responses.
C10_FailureDoesNotAbortOthers ==
    (cg_pc = "done" /\ KeyPresent) =>
        /\ cg_ret.k = "dict"
        /\ Keys(cg_ret) = symbols
        /\ RequestsTo(requests, "coinglass") = ExpectedCoinglassRequests(1)
        /\ \A i \in 1..Len(symbols) :
             LET sym == symbols[i]
                 metrics == Get(cg_ret, sym, None)
                 row == Get(cg_answers[sym].liquidation.body, "data", None).d[1]
             IN (OverviewSucceeded(sym) /\ LiquidationSucceeded(sym)) =>
                  /\ OverviewFieldsKept(sym, metrics)
                  /\ Get(metrics, "long_liquidations_24h", None)
                       = Get(row, "longLiquidation", NA)
                  /\ Get(metrics, "short_liquidations_24h", None)
                       = Get(row, "shortLiquidation", NA)
                  /\ Get(metrics, "total_liquidations_24h", None)
                       = Get(row, "totalLiquidation", NA)

\* C10 witness: the fetch returned after BTC's overview request raised and
\* XRP's liquidation request raised, with ETH, between them, fully populated.
C10_Witness ==
    /\ cg_pc = "done"
    /\ KeyPresent
    /\ cg_answers["BTC"].overview = ErrorResponse
    /\ cg_answers["XRP"].liquidation = ErrorResponse
    /\ cg_answers["ETH"].overview = OverviewFull("ETH")
    /\ LiquidationSucceeded("ETH")
    /\ Get(Get(cg_ret, "ETH", None), "volume_24h", None) = Num(Sample["ETH"].TV)
    /\ Get(Get(cg_ret, "ETH", None), "total_liquidations_24h", None) = Num(Sample["ETH"].TL)

\* The reading of the operator's text that C11 speaks of ---------------------
\* The index of the first mark in t[i..j].
FirstMark(t, i, j, mark) ==
    CHOOSE k \in i..j : t[k] = mark /\ \A m \in i..(k - 1) : t[m] # mark

\* The end of the stretch without the mark that starts at i and ends by j.
StretchEnd(t, i, j, mark) ==
    IF \E k \in i..j : t[k] = mark THEN FirstMark(t, i, j, mark) - 1 ELSE j

\* Where the stretches between the marks start in t[i..j].
StretchStarts(t, i, j, mark) == {i} \cup {k + 1 : k \in {m \in i..j : t[m] = mark}}

\* The clauses with a colon whose name, trimmed and in upper case, is sym:
\* each as <<the index after its colon, its last index>>.
ClausesNaming(t, sym) ==
    { <<FirstMark(t, i, StretchEnd(t, i, Len(t), Semicolon), Colon) + 1,
        StretchEnd(t, i, Len(t), Semicolon)>> :
      i \in { n \in StretchStarts(t, 1, Len(t), Semicolon) :
                LET j == StretchEnd(t, n, Len(t), Semicolon) IN
                /\ \E k \in n..j : t[k] = Colon
                /\ UpperOf(Strip(SubSeq(t, n, FirstMark(t, n, j, Colon) - 1))) = sym } }

\* The values that the fields KEY=VALUE of the details t[from..to] give key.
ValuesIn(t, from, to, key) ==
    { Strip(SubSeq(t, FirstMark(t, a, StretchEnd(t, a, to, Comma), Equals) + 1,
                   StretchEnd(t, a, to, Comma))) :
      a \in { n \in StretchStarts(t, from, to, Comma) :
                LET b == StretchEnd(t, n, to, Comma) IN
                /\ \E k \in n..b : t[k] = Equals
                /\ StrOf(Strip(SubSeq(t, n, FirstMark(t, n, b, Equals) - 1))) = key } }

\* The values the text supplies for the key of the symbol; none when the
\* text is n/a in any letter case.
Supplied(t, sym, key) ==
    IF LowerOf(Strip(t)) = "n/a" THEN {}
    ELSE UNION { ValuesIn(t, cl[1], cl[2], key) : cl \in ClausesNaming(t, sym) }

ManualKeys == {"TV", "TL", "LL", "SL", "OI"}
FieldOfKey(key) ==
    CASE key = "TV" -> "volume_24h"
      [] key = "TL" -> "total_liquidations_24h"
      [] key = "LL" -> "long_liquidations_24h"
      [] key = "SL" -> "short_liquidations_24h"
      [] OTHER -> "open_interest"

\* The field of the symbol's metrics as the formatter reads it.
ManualField(sym, key) ==
    Get(Get(coinglass_parsed_data, sym, Dict(<<>>)), FieldOfKey(key), NA)

ManualDataReady ==
    handler = "handle_admin_manual_coinglass_input" /\ h_pc = "feargreed"

\* The text supplies one value for the key of the symbol and the metrics hold
\* it, or it supplies none and they hold the sentinel.
ParsedAsSupplied(sym, key) ==
    LET vals == Supplied(update.text, sym, key) IN
    /\ vals = {} => ManualField(sym, key) = NA
    /\ \A v \in vals : vals = {v} => ManualField(sym, key) = StrT(v)

\* C11 (as claimed): the metrics parsed from the operator's text are for
\* exactly BTC, ETH and XRP, and each of the five fields of each symbol holds
\* the value that a well-formed clause supplies for it and the sentinel when
\* none does (clauses without a colon, fields without an equals sign, unknown
\* symbols and the text n/a supply nothing).
C11_ParsedFieldsAreTheSuppliedOnes ==
    ManualDataReady =>
        /\ {Keys(coinglass_parsed_data)[i] : i \in 1..Len(Keys(coinglass_parsed_data))}
              = {"BTC", "ETH", "XRP"}
        /\ \A sym \in {"BTC", "ETH", "XRP"}, key \in ManualKeys :
              ParsedAsSupplied(sym, key)

\* C11, the case the code keeps: texts that name no symbol in two clauses.
C11_OneClausePerSymbolParsed ==
    (ManualDataReady
     /\ \A sym \in {"BTC", "ETH", "XRP"} :
           Cardinality(ClausesNaming(update.text, sym)) <= 1) =>
        /\ {Keys(coinglass_parsed_data)[i] : i \in 1..Len(Keys(coinglass_parsed_data))}
              = {"BTC", "ETH", "XRP"}
        /\ \A sym \in {"BTC", "ETH", "XRP"}, key \in ManualKeys :
              ParsedAsSupplied(sym, key)

\* The manual path has made its three fetches and is about to format.
ManualReadyToFormat ==
    handler = "handle_admin_manual_coinglass_input" /\ h_pc = "decide"

\* No upstream answer of this update was faulty.
AllAnsweredFully == faults_left = MaxFaultsBot

\* The price/change part of an instrument's segment.
PricePart(symbol, data) == InstrumentParts(symbol, data)[2]

\* C12 (as claimed): on the manual path the metrics handed to the formatter
\* carry, for each of BTC, ETH and XRP, the price and the 24h change of the
\* price client's snapshot, as the automated enrichment stores them, so that
\* with numeric price and change the manual report renders the price/change
\* line the automated report renders.
C12_ManualMetricsCarryPriceAndChange ==
    (ManualReadyToFormat /\ AllAnsweredFully) =>
        \A i \in 1..Len(symbols) :
            LET symbol == symbols[i]
                quote == Get(coingecko_data, symbol, None)
                metrics == Get(coinglass_parsed_data, symbol, Dict(<<>>))
                automated == Unavailable(Get(quote, "price", NA),
                                         Get(quote, "change_24h", NA))
            IN  /\ Get(metrics, "current_price", NA) = Get(quote, "price", NA)
                /\ Get(metrics, "change_24h", NA) = Get(quote, "change_24h", NA)
                /\ PricePart(symbol, metrics) = PricePart(symbol, automated)

InstrumentToken(symbol) == Tok(symbol \o ":", Len(symbol) + 1)
InstrumentTokens == {InstrumentToken(symbols[i]) : i \in 1..Len(symbols)}

\* The segment of the instrument in the text holds a price/change line.
HasPriceLine(text, symbol) ==
    \E i \in 1..Len(text) :
        /\ text[i] = InstrumentToken(symbol)
        /\ \E j \in (i + 1)..Len(text) :
              /\ text[j] = PriceLabel[1]
              /\ \A m \in (i + 1)..(j - 1) : text[m] \notin InstrumentTokens

Formatted == h_pc = "formatted"

FormatterEntries ==
    IF Truthy(coinglass_parsed_data) THEN coinglass_parsed_data.d ELSE <<>>

IsNumber(v) == v.k = "num"

\* C13 (as claimed): the segment of an instrument holds a price/change line
\* exactly when both its current price and its 24h change are numbers; with
\* the sentinel, None or any other value in either, the line is omitted.
C13_PriceLineIffBothNumeric ==
    Formatted =>
        \A i \in 1..Len(FormatterEntries) :
            LET e == FormatterEntries[i] IN
            HasPriceLine(post_to_publish, e.key)
                <=> (IsNumber(Get(e.val, "current_price", NA))
                     /\ IsNumber(Get(e.val, "change_24h", NA)))

\* C13, what the code keeps: with both numeric the line is there, and with
\* the change equal to the sentinel it is omitted.
C13_PriceLineUnlessChangeIsSentinel ==
    Formatted =>
        \A i \in 1..Len(FormatterEntries) :
            LET e == FormatterEntries[i]
                price == Get(e.val, "current_price", NA)
                change == Get(e.val, "change_24h", NA)
            IN  HasPriceLine(post_to_publish, e.key)
                    <=> ((IsNumber(price) /\ IsNumber(change)) \/ change # NA)

\* The index of the symbol in the fixed order, 0 for any other unit.
SymbolIndex(unit) ==
    IF unit \in InstrumentTokens
    THEN CHOOSE a \in 1..Len(symbols) : unit = InstrumentToken(symbols[a])
    ELSE 0

\* The report of a handler is ready.
ReportReady == handler # "none" /\ post_to_publish # <<>>

\* C14 (as claimed): in every report the instrument segments come in the
\* fixed order BTC, ETH, XRP, whether the metrics come from the derivatives
\* client or from the operator's text.
C14_SegmentsInSymbolOrder ==
    ReportReady =>
        \A i, j \in 1..Len(post_to_publish) :
            (/\ i < j
             /\ SymbolIndex(post_to_publish[i]) > 0
             /\ SymbolIndex(post_to_publish[j]) > 0)
                => SymbolIndex(post_to_publish[i]) < SymbolIndex(post_to_publish[j])

\* C14, the automated producer alone: the segments of its reports are in the
\* fixed order.
C14_AutomatedSegmentsInSymbolOrder ==
    (ReportReady /\ handler \in {"autopost_dashboard", "report_command", "test_command"}) =>
        \A i, j \in 1..Len(post_to_publish) :
            (/\ i < j
             /\ SymbolIndex(post_to_publish[i]) > 0
             /\ SymbolIndex(post_to_publish[j]) > 0)
                => SymbolIndex(post_to_publish[i]) < SymbolIndex(post_to_publish[j])

\* An input of the formatter is wholly absent: nothing, or an empty mapping.
Absent(v) == v = None \/ v = Dict(<<>>)

AllAbsent == Absent(coinglass_parsed_data) /\ Absent(fear_greed_data) /\ Absent(coingecko_data)

\* C15: generate_dashboard_post returns the fallback document exactly when
\* the metrics, the sentiment reading and the snapshot are all wholly absent,
\* and it never returns an empty document.
C15_FallbackIffAllAbsent ==
    Formatted =>
        /\ (post_to_publish = NoDataText <=> AllAbsent)
        /\ post_to_publish # <<>>

\* C15 witnesses: the fallback was returned for three absent inputs, and a
\* report was built with only the sentiment reading present.
C15_Witness ==
    /\ Formatted
    /\ AllAbsent
    /\ post_to_publish = NoDataText

C15_WitnessOnePresent ==
    /\ Formatted
    /\ Absent(coinglass_parsed_data) /\ Absent(coingecko_data) /\ ~Absent(fear_greed_data)
    /\ post_to_publish # NoDataText

Automated == {"autopost_dashboard", "report_command", "test_command"}

\* An upstream call failed: a network error or a non-2xx response ("error"),
\* or a body that is not what the client can read ("malformed").
CallFailed(r) == r.kind \in {"error", "malformed"}

\* The automated handler holds what fetch_coingecko_data returned for the
\* answers it got: the answer to its price request and, unless that was an
\* error, the answer to its global request.
SnapshotFetched ==
    /\ handler \in Automated
    /\ h_pc = "decide"
    /\ Len(answers) \in {1, 2}

\* One of its upstream calls failed.
SnapshotCallFailed == \E i \in 1..Len(answers) : CallFailed(answers[i])

\* The price request was answered with quotes, and the body of the global
\* answer is empty (JSON null) where an object is expected.
OnlyGlobalBodyEmpty ==
    /\ Len(answers) = 2
    /\ ~CallFailed(answers[1])
    /\ answers[2].kind = "malformed" /\ ~Truthy(answers[2].body)

\* C16 (as claimed): when either upstream call of fetch_coingecko_data
\* fails, the client returns the snapshot in which every field is the
\* unavailable sentinel.
C16_FailedSnapshotIsAllUnavailable ==
    (SnapshotFetched /\ SnapshotCallFailed) => coingecko_data = UnavailableSnapshot

\* C16, what the client returns: nothing at all, or, when only the body of
\* the global answer is empty, the quotes it got with the dominance alone
\* unavailable.
C16_FailedSnapshotIsNoneOrLacksDominance ==
    (SnapshotFetched /\ SnapshotCallFailed) =>
        IF OnlyGlobalBodyEmpty
        THEN /\ coingecko_data.k = "dict"
             /\ Get(coingecko_data, "btc_dominance", None) = NA
             /\ \A i \in 1..Len(symbols) :
                   Get(coingecko_data, symbols[i], None) # NA
        ELSE coingecko_data = None

\* The handler holds what fetch_fear_greed_index returned for the answer.
ReadingFetched == h_pc = "coingecko" /\ Len(answers) = 1

\* The answer of the sentiment service is an error or carries no reading.
NoReading(r) == CallFailed(r) \/ r = FngEmpty

\* fetch_coinglass_data returned a value: nothing without the credential,
\* and with it metrics for each of the instruments.
CoinglassReturnedValue ==
    IF KeyPresent
    THEN /\ cg_ret.k = "dict"
         /\ Keys(cg_ret) = symbols
    ELSE cg_ret = None

\* C17: no failure of an upstream call escapes a client. Whatever the
\* answers, fetch_fear_greed_index returns the absent reading on an error or
\* an empty payload, fetch_coingecko_data returns a value (nothing, or a
\* snapshot), fetch_coinglass_data returns a value, and the handler goes on
\* to its next step: it ends by raising only when a message could not be
\* sent.
C17_NoUpstreamFailureEscapes ==
    /\ (ReadingFetched /\ NoReading(answers[1])) => fear_greed_data = None
    /\ ReadingFetched => fear_greed_data.k \in {"none", "dict"}
    /\ SnapshotFetched => coingecko_data.k \in {"none", "dict"}
    /\ (handler \in Automated /\ cg_pc = "done") => CoinglassReturnedValue
    /\ (Ended /\ h_ret = "raised") =>
          \E i \in 1..Len(sends) : ~sends[i].ok

\* C17 witnesses: a handler went on after the sentiment request failed, and
\* after a derivatives request and the snapshot request failed.
C17_Witness ==
    /\ ReadingFetched
    /\ answers[1] = ErrorResponse
    /\ fear_greed_data = None

C17_WitnessSnapshot ==
    /\ SnapshotFetched
    /\ CallFailed(answers[1])
    /\ coingecko_data = None

\* The positions of the requests to one service in the log of the cycle.
PositionsOf(api) == {i \in 1..Len(requests) : requests[i].api = api}

SentimentRequests == PositionsOf("alternative")
DerivativesRequests == PositionsOf("coinglass")
PriceRequests == PositionsOf("coingecko")

\* The operator's text has been parsed.
ManualParsed ==
    /\ handler = "handle_admin_manual_coinglass_input"
    /\ h_pc \in {"prices", "prices_global", "feargreed", "coingecko", "coingecko_global",
                 "decide"}

\* Where a handler stands before and while it fetches.
Fetching ==
    {"ack", "parse", "coinglass", "prices", "prices_global", "feargreed", "coingecko",
     "coingecko_global"}

\* The formatter has run, or delivery has begun.
FormatterRan == handler # "none" /\ (post_to_publish # <<>> \/ pub_pc # "idle")

\* C18 (as claimed): the components of a cycle run in the order Price/Index,
\* Sentiment, Derivatives (or manual parse): every Price/Index request comes
\* before the Sentiment request, and the Sentiment request comes before every
\* Derivatives request and before the manual parse.
C18_PriceThenSentimentThenDerivatives ==
    handler # "none" =>
        /\ \A i \in PriceRequests : \A j \in SentimentRequests : i < j
        /\ \A i \in SentimentRequests : \A j \in DerivativesRequests : i < j
        /\ ManualParsed => SentimentRequests # {}

\* C18 (amended): the components of a cycle run one after another in the
\* order Derivatives Client (beginning with its own Price/Index requests;
\* on the manual path the parse and then the price lookup), Sentiment
\* Client, Price/Index Client, Formatter, Delivery. Every Derivatives
\* request and the manual parse come before the one Sentiment request, the
\* Derivatives Client's requests start with Price/Index requests, Price/Index
\* requests follow the Sentiment request, and the formatter and delivery run
\* only after all of them.
C18_DerivativesThenSentimentThenPrice ==
    handler # "none" =>
        /\ Cardinality(SentimentRequests) <= 1
        /\ \A i \in DerivativesRequests : \A j \in SentimentRequests : i < j
        /\ DerivativesRequests # {} =>
              \E i \in PriceRequests : \A j \in DerivativesRequests : i < j
        /\ (handler = "handle_admin_manual_coinglass_input" /\ h_pc \in {"ack", "parse"})
              => requests = <<>>
        /\ (handler = "handle_admin_manual_coinglass_input" /\ h_pc = "prices")
              => requests = <<>> /\ coinglass_parsed_data = ParseManualInput(update.text)
        /\ FormatterRan =>
              /\ SentimentRequests # {}
              /\ \E i \in PriceRequests : \A j \in SentimentRequests : j < i
              /\ h_pc \notin Fetching
        /\ sends # <<>> /\ h_pc \in Fetching =>
              \A i \in 1..Len(sends) : sends[i].text \in {StartingText(handler), GotDataText}

\* C18 witness: a cycle with the credential reached delivery after requests
\* to all three services.
C18_Witness ==
    /\ handler \in Automated
    /\ pub_pc # "idle"
    /\ DerivativesRequests # {}
    /\ SentimentRequests # {}
    /\ \E i \in PriceRequests : \A j \in SentimentRequests : j < i

\* The operator invoked a command, and its handler got as far as its
\* requests.
InvokedByOperator ==
    /\ \/ handler \in {"report_command", "test_command"} /\ update.user = ADMIN_ID
       \/ handler = "handle_admin_manual_coinglass_input"
    /\ requests # <<>>

\* The report reached the chat it was meant for.
Delivered ==
    IF handler = "test_command" \/ (handler = "handle_admin_manual_coinglass_input"
                                    /\ target_chat_id = ADMIN_ID)
    THEN HasReceived(ADMIN_ID, post_to_publish)
    ELSE pub_ret = "True"

SuccessTexts == {ReportOkText, TestOkText, ManualOkText, ManualTestOkText}
DeliveryFailureTexts == {ReportFailedText, TestErrorText, ManualFailedText, ManualErrorText}

\* The outcome messages that match what happened in the cycle.
MatchingOutcomes ==
    IF handler \in Automated /\ KeyMissing THEN {ConfigWarningText(handler)}
    ELSE IF handler \in Automated /\ UpstreamFailed THEN {ApiErrorText(handler)}
    ELSE IF Delivered THEN SuccessTexts
    ELSE DeliveryFailureTexts

SentOutcome ==
    \E i \in 1..Len(sends) :
        sends[i].chat_id = ADMIN_ID /\ sends[i].text \in MatchingOutcomes

\* C19 (as claimed): a command invoked by the operator finishes having sent
\* the operator the outcome message that matches what happened: success, the
\* configuration warning, the API-error warning or the delivery-failure
\* warning, under every combination of upstream and delivery failures.
C19_OperatorGetsMatchingOutcome ==
    (InvokedByOperator /\ Ended) => SentOutcome

\* C19, what the code keeps: the outcome message matches when no request to
\* the derivatives API raised and publish_post_to_channel returned.
C19_OutcomeMatchesWithoutUpstreamFailure ==
    (InvokedByOperator /\ Ended /\ ~UpstreamFailed /\ pub_ret # "raised") => SentOutcome

\* The texts that tell of a failure on the automated path.
FailureTexts ==
    {ConfigWarningText("autopost_dashboard"), ApiErrorText("autopost_dashboard"),
     DeliveryFailedText}

\* The stripped chunks of the report of the cycle.
ReportChunks ==
    LET made == MakeChunks(post_to_publish) IN
    {Strip(made[k]) : k \in 1..Len(made)}

\* The cycle was cancelled: the credential is missing, or the derivatives
\* client returned nothing.
Cancelled == KeyMissing \/ (cg_pc = "done" /\ cg_ret = None)

\* C20: in autopost_dashboard every failure notification goes to the
\* administrator only: a message to the channel is never a failure or
\* warning text (it is a chunk of the report), every failure text in the
\* log is addressed to the administrator, nothing else is sent to anyone,
\* and a cancelled cycle sends the channel nothing.
C20_AutopostFailuresGoToAdminOnly ==
    handler = "autopost_dashboard" =>
        /\ \A i \in 1..Len(sends) :
              /\ sends[i].chat_id \in {ADMIN_ID, CHANNEL_ID}
              /\ sends[i].chat_id = CHANNEL_ID =>
                    /\ sends[i].text \notin FailureTexts
                    /\ sends[i].text \in ReportChunks
              /\ sends[i].chat_id = ADMIN_ID => sends[i].text \in FailureTexts
        /\ Cancelled => ChannelCalls = <<>> /\ post_to_publish = <<>>

\* C20 witnesses: a cycle whose post to the channel failed told the
\* administrator, and a cycle without the credential told the administrator
\* and sent the channel nothing.
C20_Witness ==
    /\ handler = "autopost_dashboard"
    /\ Ended
    /\ \E i \in 1..Len(sends) : sends[i].chat_id = CHANNEL_ID /\ ~sends[i].ok
    /\ HasReceived(ADMIN_ID, DeliveryFailedText)

C20_WitnessCancelled ==
    /\ handler = "autopost_dashboard"
    /\ Ended
    /\ KeyMissing
    /\ HasReceived(ADMIN_ID, ConfigWarningText("autopost_dashboard"))
    /\ ChannelCalls = <<>>

\* The places in the report where a segment of a kind begins.
PlacesOf(units) == {i \in 1..Len(post_to_publish) : post_to_publish[i] \in units}

HeaderPlaces == PlacesOf({HeaderText[1]})
InstrumentPlaces == PlacesOf(InstrumentTokens \cup {NoCoinglassText[1]})
DominancePlaces == PlacesOf({DominanceLabel[1], NoDominanceText[1]})
SentimentPlaces == PlacesOf({FearGreedLabel[1], NoFearGreedText[1]})

\* Every place of the first set is before every place of the second.
Before(first, second) == \A i \in first : \A j \in second : i < j

\* A handler built a report other than the fallback document.
DocumentReady == ReportReady /\ post_to_publish # NoDataText

\* Every upstream answered in full, with the credential present.
AllUpstreamsSucceeded ==
    /\ handler \in Automated
    /\ KeyPresent
    /\ faults_left = MaxFaultsBot

\* C21 (as claimed): every document other than the fallback that a handler
\* builds has exactly one header segment, then the instrument segments, then
\* exactly one dominance segment and exactly one sentiment segment, in this
\* order, whatever data is available; with all upstreams succeeding it has
\* three instrument blocks.
C21_OneHeaderDominanceAndSentiment ==
    DocumentReady =>
        /\ Cardinality(HeaderPlaces) = 1
        /\ Cardinality(DominancePlaces) = 1
        /\ Cardinality(SentimentPlaces) = 1
        /\ InstrumentPlaces # {}
        /\ Before(HeaderPlaces, InstrumentPlaces)
        /\ Before(InstrumentPlaces, DominancePlaces)
        /\ Before(DominancePlaces, SentimentPlaces)
        /\ AllUpstreamsSucceeded => Cardinality(PlacesOf(InstrumentTokens)) = 3

\* C21, what the code keeps: the same, except that the dominance segment is
\* there exactly when the handler holds a snapshot.
C21_DominanceOnlyWithSnapshot ==
    DocumentReady =>
        /\ Cardinality(HeaderPlaces) = 1
        /\ Cardinality(DominancePlaces) = (IF Truthy(coingecko_data) THEN 1 ELSE 0)
        /\ Cardinality(SentimentPlaces) = 1
        /\ InstrumentPlaces # {}
        /\ Before(HeaderPlaces, InstrumentPlaces)
        /\ Before(InstrumentPlaces, DominancePlaces)
        /\ Before(DominancePlaces, SentimentPlaces)
        /\ Before(InstrumentPlaces, SentimentPlaces)
        /\ AllUpstreamsSucceeded => Cardinality(PlacesOf(InstrumentTokens)) = 3

\* The segment of an instrument in the report: from its label up to the next
\* label of an instrument, of dominance or of sentiment.
SegmentStarts(sym) == PlacesOf({InstrumentToken(sym)})
SegmentStops(i) ==
    {j \in InstrumentPlaces \cup DominancePlaces \cup SentimentPlaces : j > i}
    \cup {Len(post_to_publish) + 1}
SegmentStop(i) == CHOOSE j \in SegmentStops(i) : \A m \in SegmentStops(i) : j <= m

\* What the segments of the instrument show after a label.
ShownAfter(sym, label) ==
    {post_to_publish[j + 2] :
        j \in {m \in 1..(Len(post_to_publish) - 2) :
                 /\ post_to_publish[m] = label[1]
                 /\ \E i \in SegmentStarts(sym) : i < m /\ m < SegmentStop(i)}}

\* The labels of the fields that are not the price, with the field each shows
\* and the number the sample answers carry for it.
MetricFields ==
    { [label |-> VolumeLabel, field |-> "volume_24h", sample |-> "TV"],
      [label |-> TotalLiquidationsLabel, field |-> "total_liquidations_24h", sample |-> "TL"],
      [label |-> LongLiquidationsLabel, field |-> "long_liquidations_24h", sample |-> "LL"],
      [label |-> ShortLiquidationsLabel, field |-> "short_liquidations_24h", sample |-> "SL"],
      [label |-> OpenInterestLabel, field |-> "open_interest", sample |-> "OI"] }

\* The derivatives client had no price for the instrument: the price client
\* failed, or its answer had no value for it.
PriceUnavailable(sym) == cg_pc = "done" /\ ~IsNumeric(CurrentPrice(sym))

\* An automated handler built its report from the metrics of the
\* derivatives client.
AutomatedDocument == DocumentReady /\ handler \in Automated

\* C22: when the price of an instrument is unavailable and the derivatives
\* client obtained its metrics, the report still has the segment of the
\* instrument, once, with volume, the three liquidation fields and open
\* interest: each shows the value the client obtained, the numbers of the
\* answers when both derivatives requests were answered in full, and the
\* text N/A for a field that is the sentinel.
C22_NoPriceStillRendersMetrics ==
    AutomatedDocument =>
        \A k \in 1..Len(symbols) :
            LET sym == symbols[k]
                metrics == Get(cg_ret, sym, None)
            IN  PriceUnavailable(sym) =>
                  /\ Cardinality(SegmentStarts(sym)) = 1
                  /\ \A f \in MetricFields :
                        /\ ShownAfter(sym, f.label) = {TextOf(Get(metrics, f.field, None))[1]}
                        /\ Get(metrics, f.field, None) = NA
                              => ShownAfter(sym, f.label) = {Tok("N/A", 3)}
                        /\ (cg_answers[sym].overview = OverviewFull(sym)
                            /\ LiquidationSucceeded(sym))
                              => ShownAfter(sym, f.label)
                                    = {Tok(ToString(Sample[sym][f.sample]),
                                           Len(ToString(Sample[sym][f.sample])))}

\* C22 witness: an automated report in which BTC has no price, its overview
\* request succeeded and its liquidation request failed: the volume line
\* shows the number, the three liquidation lines show the sentinel text, and
\* the segment of BTC starts once.
C22_WitnessSentinelField ==
    /\ AutomatedDocument
    /\ PriceUnavailable("BTC")
    /\ Cardinality(SegmentStarts("BTC")) = 1
    /\ Get(Get(cg_ret, "BTC", None), "volume_24h", None) = Num(500)
    /\ ShownAfter("BTC", VolumeLabel) = {Tok("500", 3)}
    /\ \A f \in {g \in MetricFields : g.sample \in {"TL", "LL", "SL"}} :
          /\ Get(Get(cg_ret, "BTC", None), f.field, None) = NA
          /\ ShownAfter("BTC", f.label) = {Tok("N/A", 3)}

\* C22 witness: an automated report in which the price client failed and the
\* overview request of BTC failed too: all five lines of BTC show the
\* sentinel text.
C22_WitnessAllSentinel ==
    /\ AutomatedDocument
    /\ coingecko_prices = UnavailableSnapshot
    /\ Cardinality(SegmentStarts("BTC")) = 1
    /\ \A f \in MetricFields :
          /\ Get(Get(cg_ret, "BTC", None), f.field, None) = NA
          /\ ShownAfter("BTC", f.label) = {Tok("N/A", 3)}

\* C22 witnesses: a report built after the price client failed, and one
\* built after the price client had no value for BTC, each with the numbers
\* of BTC from the derivatives API.
C22_Witness ==
    /\ AutomatedDocument
    /\ coingecko_prices = UnavailableSnapshot
    /\ OverviewSucceeded("BTC") /\ LiquidationSucceeded("BTC")
    /\ ShownAfter("BTC", VolumeLabel) = {Tok("500", 3)}

C22_WitnessNoValue ==
    /\ AutomatedDocument
    /\ CurrentPrice("BTC") = None
    /\ ShownAfter("BTC", OpenInterestLabel) = {Tok("90", 2)}

\* The block of an instrument: from its label through its open-interest
\* line.
BlockFrom(i) == Strip(SubSeq(post_to_publish, i, SegmentStop(i) - 1))

HasBlankLine(text) == \E m \in 1..(Len(text) - 1) : text[m] = NL /\ text[m + 1] = NL

\* The text holds the piece as one stretch.
IsInfix(piece, text) ==
    \E from \in 1..(Len(text) - Len(piece) + 1) :
        SubSeq(text, from, from + Len(piece) - 1) = piece

InstrumentBlocks == {BlockFrom(i) : i \in PlacesOf(InstrumentTokens)}

\* The report of the handler has been divided into chunks for the channel.
DocumentChunked == DocumentReady /\ Chunked /\ post_text = post_to_publish

\* C23 (as claimed): in every document a handler builds, the block of each
\* instrument holds no double newline, and once the document is divided for
\* the channel each block lies inside one chunk.
C23_InstrumentBlockIsAtomic ==
    /\ DocumentReady => \A block \in InstrumentBlocks : ~HasBlankLine(block)
    /\ DocumentChunked =>
          \A block \in InstrumentBlocks :
              \E k \in 1..Len(chunks) : IsInfix(block, chunks[k])

\* C23, what the code keeps: a block with its price/change line holds no
\* double newline and lies inside one chunk.
C23_BlockWithPriceLineIsAtomic ==
    /\ DocumentReady =>
          \A i \in PlacesOf(InstrumentTokens) :
              HasBlankLine(BlockFrom(i)) <=> post_to_publish[i + 3] # PriceLabel[1]
    /\ DocumentChunked =>
          \A i \in PlacesOf(InstrumentTokens) :
              post_to_publish[i + 3] = PriceLabel[1]
                  => \E k \in 1..Len(chunks) : IsInfix(BlockFrom(i), chunks[k])

\* C23, the division itself: no block is divided between two chunks.
C23_NoBlockDivided ==
    DocumentChunked =>
        \A block \in InstrumentBlocks :
            \E k \in 1..Len(chunks) : IsInfix(block, chunks[k])

\* The chunk sends to the channel that returned.
SuccessfulSends == {k \in 1..Len(ChannelCalls) : ChannelCalls[k].ok}

\* C24: the chunks are sent in their original order, and the pauses taken
\* are one after each successful send that is not the send of the final
\* chunk: one between every two consecutive sends, none after the final
\* chunk and none after a failed send.
C24_OnePauseBetweenChunks ==
    Chunked =>
        /\ \A k \in 1..Len(ChannelCalls) : ChannelCalls[k].text = Strip(chunks[k])
        /\ sleeps = Cardinality({k \in SuccessfulSends : k < Len(chunks)})
        /\ pub_pc = "send" => sleeps = chunk_i - 1
        /\ pub_ret = "True" => sleeps = Len(chunks) - 1
        /\ (ChannelCalls # <<>> /\ ~ChannelCalls[Len(ChannelCalls)].ok)
              => sleeps = Len(ChannelCalls) - 1

\* C24 witnesses: a delivery of three chunks that took two pauses, and one
\* that failed on its second chunk after one pause.
C24_Witness ==
    /\ pub_ret = "True"
    /\ Len(chunks) = 3
    /\ sleeps = 2

C24_WitnessFailure ==
    /\ pub_pc = "done"
    /\ Len(chunks) > 2
    /\ Len(ChannelCalls) = 2
    /\ ~ChannelCalls[2].ok
    /\ sleeps = 1

\* The update being handled, or handled last, came from a user other than
\* the administrator.
FromNonAdmin == update.user \notin {ADMIN_ID, "none"}

\* C25: a message from a user other than the administrator causes no
\* upstream request, no report, no send to the channel and no change of a
\* manual-input flag of anyone; it is answered with one reply to its sender,
\* the insufficient-rights text or the informational text, and its handler
\* is then done.
C25_NonAdminCausesNothing ==
    /\ [](FromNonAdmin =>
            /\ requests = <<>>
            /\ ChannelCalls = <<>>
            /\ AdminCalls = <<>>
            /\ post_to_publish = <<>>
            /\ pub_pc = "idle" /\ cg_pc = "idle" /\ h_pc = "idle"
            /\ Len(sends) = 1
            /\ sends[1].chat_id = update.user
            /\ sends[1].text \in {InsufficientRightsText, InfoText}
            /\ sends[1].text = InsufficientRightsText
                  <=> handler \in {"report_command", "test_command",
                                   "report_admin_command", "report_admin_test_command"})
    /\ [][FromNonAdmin' => user_data' = user_data]_vars

\* C25 witness: /report_admin from a guest was answered with the
\* insufficient-rights text while a request of the administrator was
\* pending, and the guest has no flag.
C25_Witness ==
    /\ FromNonAdmin
    /\ handler = "report_admin_command"
    /\ HasReceived("guest", InsufficientRightsText)
    /\ user_data[ADMIN_ID].waiting_for_manual_coinglass_input_channel
    /\ user_data["guest"] = NoFlags

\* The handlers of a kind, and the text handlers with a target.
JobsOf(kind) == {j \in 1..Len(jobs) : jobs[j].kind = kind}
Consumers(target) == {j \in JobsOf("text") : jobs[j].target = target}
TextsAt(pcs) == {j \in JobsOf("text") : jobs[j].pc \in pcs}

\* The messages of the log with a text to a chat, delivered or not.
SendsOf(chat, texts) ==
    {i \in 1..Len(sends) : sends[i].chat_id = chat /\ sends[i].text \in texts}

\* The requests for manual data that were made: the flag was set.
FlagSets(h) == {i \in SendsOf(ADMIN_ID, {PromptText(h)}) : sends[i].ok}

\* The manual reports the channel received: the messages that begin with
\* the header of a report.
ChannelReports ==
    {i \in 1..Len(sends) :
        /\ sends[i].chat_id = CHANNEL_ID /\ sends[i].ok
        /\ sends[i].text # <<>> /\ sends[i].text[1] = HeaderText[1]}

Pending(flag) == IF user_data[ADMIN_ID][flag] THEN 1 ELSE 0

\* C26: a pending request for manual data is consumed at most once, also
\* when the handlers of the operator's updates interleave at their awaits.
\* The texts that took the channel flag, with the flag if it is pending,
\* are no more than the times the flag was set, which are no more than the
\* /report_admin commands issued (likewise for /report_admin_test); so the
\* reports the channel received are no more than the /report_admin
\* commands. A text that found no flag makes no request and sends nothing:
\* the acknowledgements are as many as the texts that took a flag and went
\* past their first await, every request was made by a text that took a
\* flag, and each of these asks for the sentiment reading once, after its
\* prices.
C26_RequestConsumedAtMostOnce ==
    /\ Cardinality(Consumers(CHANNEL_ID))
          + Pending("waiting_for_manual_coinglass_input_channel")
            <= Cardinality(FlagSets("report_admin_command"))
    /\ Cardinality(Consumers(ADMIN_ID))
          + Pending("waiting_for_manual_coinglass_input_admin")
            <= Cardinality(FlagSets("report_admin_test_command"))
    /\ Cardinality(FlagSets("report_admin_command"))
          <= Cardinality(JobsOf("report_admin_command"))
    /\ Cardinality(ChannelReports) <= Cardinality(Consumers(CHANNEL_ID))
    /\ Cardinality(ChannelReports) <= Cardinality(JobsOf("report_admin_command"))
    /\ \A j \in TextsAt({"ignored"}) :
          jobs[j].target = "none" /\ jobs[j].post = <<>> /\ jobs[j].reqs = {}
    /\ Consumers("none") = TextsAt({"ignored"})
    /\ Cardinality(SendsOf(ADMIN_ID, {GotDataText}))
          = Cardinality((JobsOf("text") \ TextsAt({"ignored", "reply"})))
    /\ UNION {jobs[j].reqs : j \in Consumers(CHANNEL_ID) \cup Consumers(ADMIN_ID)}
          = 1..Len(requests)
    /\ \A j \in JobsOf("text") :
          LET asked == jobs[j].reqs \cap PositionsOf("alternative") IN
          /\ Cardinality(asked) <= 1
          /\ jobs[j].pc \in {"coingecko", "coingecko_global", "done"} \cup DeliveringAt
                => asked # {}
          /\ jobs[j].pc \in {"reply", "ignored", "prices", "prices_global", "feargreed"}
                => asked = {}
          /\ \A q \in asked : \E p \in jobs[j].reqs \cap PositionsOf("coingecko") : p < q
    /\ JobsOf("text") = TextsAt({"ignored"}) =>
          /\ requests = <<>>
          /\ \A i \in 1..Len(sends) :
                sends[i].text \in {PromptText(h) : h \in ManualCommands}

\* C26 witnesses: of two texts that arrived after one /report_admin, the
\* second while the first was suspended, one took the flag and published and
\* the other was ignored; and two commands gave one report.
C26_Witness ==
    /\ Cardinality(JobsOf("report_admin_command")) = 1
    /\ Cardinality(ChannelReports) = 1
    /\ \E a, b \in JobsOf("text") :
          /\ b = a + 1
          /\ jobs[a].target = CHANNEL_ID /\ jobs[a].pc = "done"
          /\ jobs[b].pc = "ignored"

C26_WitnessInterleaved ==
    \E a, b \in JobsOf("text") :
        /\ a < b
        /\ jobs[a].pc = "reply"
        /\ jobs[b].pc = "ignored"

\* ----------------------------------------------------------------- C27
\* The calls a cycle addressed to the channel, in the order it made them.
CycleCalls(c) == [k \in 1..Len(cycles[c].sent) |-> sends[cycles[c].sent[k]]]
\* Its last call to the channel raised.
CycleFailed(c) ==
    LET n == Len(cycles[c].sent) IN n >= 1 /\ ~CycleCalls(c)[n].ok
\* Every call of the channel so far belongs to exactly one cycle.
ChannelCallsAccounted ==
    \A p \in 1..Len(sends) :
      sends[p].chat_id = CHANNEL_ID =>
        Cardinality({ck \in {dk \in (1..Len(cycles)) \X (1..Len(sends)) :
                                 dk[2] <= Len(cycles[dk[1]].sent)} :
                       cycles[ck[1]].sent[ck[2]] = p}) = 1

\* C27: with report cycles publishing side by side, the messages of each
\* cycle reach the channel in the order of that cycle's own chunks, no chunk
\* more than once and none from elsewhere, whatever the other cycles send in
\* between; and a cycle stops short of its last chunk only when a send of
\* its own has failed, so a failure in one cycle leaves the chunks of the
\* others to be delivered.
C27_CyclesDeliverIndependently ==
    /\ ChannelCallsAccounted
    /\ \A c \in 1..Len(cycles) :
         LET cy == cycles[c]
             n == Len(cy.sent)
         IN  /\ n <= Len(cy.chunks)
             /\ \A k \in 1..n :
                  /\ cy.sent[k] \in 1..Len(sends)
                  /\ k > 1 => cy.sent[k - 1] < cy.sent[k]
                  /\ CycleCalls(c)[k].chat_id = CHANNEL_ID
                  /\ CycleCalls(c)[k].text = Strip(cy.chunks[k])
                  /\ k < n => CycleCalls(c)[k].ok
             /\ cy.pc = "start" => n = 0
             /\ cy.pc = "send" => n = cy.i - 1 /\ ~CycleFailed(c)
             /\ cy.pc = "notify" => n = cy.i /\ CycleFailed(c) /\ cy.ret = "none"
             /\ cy.pc \in {"end", "done"} =>
                  /\ cy.ret = "True" <=> n = Len(cy.chunks) /\ n >= 1 /\ ~CycleFailed(c)
                  /\ cy.ret \in {"False", "raised"} <=> CycleFailed(c) \/ cy.chunks = <<>>
                  /\ cy.ret # "none"

\* C27 witness: two cycles of several chunks each ran interleaved; the first
\* failed on its second chunk and left its third unsent, and the second
\* delivered every chunk, one before that failure and the rest after it.
C27_Witness ==
    /\ Len(cycles) = 2
    /\ Len(cycles[1].chunks) = 3 /\ Len(cycles[2].chunks) = 3
    /\ cycles[1].ret = "False" /\ Len(cycles[1].sent) = 2
    /\ cycles[2].ret = "True" /\ cycles[2].pc = "done"
    /\ cycles[2].sent[1] < cycles[1].sent[2]
    /\ cycles[1].sent[2] < cycles[2].sent[2]

\* C27 witness: an autopost and a /report published side by side and both
\* delivered every chunk, their messages alternating in the channel.
C27_WitnessAlternating ==
    /\ Len(cycles) = 2
    /\ cycles[1].kind = "autopost_dashboard" /\ cycles[2].kind = "report_command"
    /\ cycles[1].ret = "True" /\ cycles[2].ret = "True"
    /\ Len(cycles[1].sent) = 3 /\ Len(cycles[2].sent) = 3
    /\ \A k \in 1..3 : cycles[1].sent[k] < cycles[2].sent[k]
    /\ \A k \in 1..2 : cycles[2].sent[k] < cycles[1].sent[k + 1]

====
